---------------------------- MODULE Spec2Model ----------------------------
(***************************************************************************)
(* A model of clawutil's data module (src/python/clawutil/clawdata.py):    *)
(* the ClawData record with its restricted attribute set, the text codec   *)
(* of data_write / read / _parse_value, and the write() methods of the     *)
(* data classes built on it.                                               *)
(*                                                                         *)
(* Text is modelled character by character: a text is a sequence of        *)
(* one-character strings, an attribute name is the text of the name.       *)
(* Attribute names are non-empty identifiers.                              *)
(***************************************************************************)
EXTENDS Integers, Sequences, FiniteSets, TLC

VARIABLES
    _attributes,   \* ClawData._attributes: the list of declared names
    dict,          \* the instance's other attributes: name -> value (Absent: none)
    _out_file,     \* ClawData._out_file: None, or the path the open handle writes
    files,         \* the file system: path -> the lines written to the path
    leaked,        \* paths whose file object was dropped or left without a close
    original,      \* the record as it was when write() last wrote it, and where
    call,          \* the last call made on the record and its arguments
    err,           \* how that call ended: "ok", or the exception it raised
    ret,           \* the value the call returned (getattr)
    items,         \* the list the call returned (iteritems)
    sample,        \* the codec's input: a value to encode
    encoded,       \* the line data_write makes of the sample
    decoded,       \* what the read path makes of that line's value text
    class,         \* the class of the record: the write() a call of write() runs
    objects,       \* the data objects a ClawRunData holds, as its data_list numbers them
    writes         \* the objects whose write() the last ClawRunData.write called, in order

vars == <<_attributes, dict, _out_file, files, leaked, original, call, err, ret,
          items, sample, encoded, decoded, class, objects, writes>>

---------------------------------------------------------------------------
(* Bounds of the model.                                                    *)

\* Longest argument list handed to add_attributes / remove_attributes / __init__.
MaxArgs == 2
\* Most lines data_write may add to a file after its header.
MaxFieldLines == 2
\* Most attributes of a GeoclawInputData set away from their defaults.
MaxChanged == 1
\* The codec's numbers: integers and float digits m with |m| <= MaxNumber.
MaxNumber == 12
\* The codec's strings: at most MaxText characters.
MaxText == 2
\* The codec's lists: at most MaxList elements.
MaxList == 2
\* Most lines of a data file handed to read.
MaxLines == 3
\* Most gauges of a GaugeData.
MaxGauges == 3
\* the sections of ClawInputData.write and AmrclawInputData.write whose
\* attributes setrun.py changes
MaxSections == 1
\* Most objects a ClawRunData is given by new_UserData.
MaxUserData == 2

---------------------------------------------------------------------------
(* Python values.  Every value is a record of the same shape, so that any  *)
(* two values can be compared: k is the type, n and e the number (for a    *)
(* float n * 10^-e), s the text of a string, l the elements of a list.     *)

NoneV == [k |-> "None", n |-> 0, e |-> 0, s |-> <<>>, l |-> <<>>]
IntV(i) == [k |-> "int", n |-> i, e |-> 0, s |-> <<>>, l |-> <<>>]
FloatV(m, d) == [k |-> "float", n |-> m, e |-> d, s |-> <<>>, l |-> <<>>]
BoolV(b) == [k |-> "bool", n |-> IF b THEN 1 ELSE 0, e |-> 0, s |-> <<>>, l |-> <<>>]
StrV(t) == [k |-> "str", n |-> 0, e |-> 0, s |-> t, l |-> <<>>]
ListV(xs) == [k |-> "list", n |-> 0, e |-> 0, s |-> <<>>, l |-> xs]
\* No such attribute on the instance: getattr raises AttributeError.
Absent == [k |-> "absent", n |-> 0, e |-> 0, s |-> <<>>, l |-> <<>>]

\* Exceptions, by the class the code raises.
OK == "ok"
AttributeError == "AttributeError"
ValueError == "ValueError"
Exception == "Exception"

Range(seq) == {seq[i] : i \in 1..Len(seq)}

\* The attribute names of the model; "_p" is a private ('_'-prefixed) one.
NameA == <<"a">>
NameB == <<"b">>
NameC == <<"c">>
NameP == <<"_", "p">>
Names == {NameA, NameB, NameC, NameP}
\* Names the attribute operations are called with.
AttrNames == {NameA, NameB, NameP}
AttrValues == {NoneV, IntV(5), BoolV(TRUE)}

\* name[0] == '_'
IsPrivate(name) == name[1] = "_"

\* Lists of at most n names (an argument list may repeat a name).
RECURSIVE NameLists(_, _)
NameLists(S, n) ==
    IF n = 0 THEN {<<>>}
    ELSE LET shorter == NameLists(S, n - 1)
         IN  shorter \cup {Append(l, x) : l \in {m \in shorter : Len(m) = n - 1}, x \in S}

\* A call: the operation, and its name, value, flag (add_to_list, force),
\* list of names and path arguments, where it has them.
NoCall == [op |-> "__init__", name |-> <<>>, value |-> NoneV, flag |-> TRUE,
           names |-> <<>>, path |-> "None"]
Call(op, name, value, flag, names) ==
    [op |-> op, name |-> name, value |-> value, flag |-> flag, names |-> names,
     path |-> "None"]
CallIO(op, path, flag) ==
    [op |-> op, name |-> <<>>, value |-> NoneV, flag |-> flag, names |-> <<>>,
     path |-> path]

---------------------------------------------------------------------------
(* Text: the string operations the codec uses.                             *)

DigitChars == <<"0", "1", "2", "3", "4", "5", "6", "7", "8", "9">>
IsDigit(c) == c \in Range(DigitChars)
DigitValue(c) == (CHOOSE i \in 1..10 : DigitChars[i] = c) - 1
\* str.isspace
IsSpace(c) == c \in {" ", "\t", "\n"}

\* The decimal digits of a natural number.
RECURSIVE Digits(_)
Digits(n) == IF n < 10 THEN <<DigitChars[n + 1]>>
             ELSE Digits(n \div 10) \o <<DigitChars[(n % 10) + 1]>>

\* The natural number a text of digits spells.
RECURSIVE DigitsValue(_)
DigitsValue(t) ==
    IF t = <<>> THEN 0
    ELSE DigitsValue(SubSeq(t, 1, Len(t) - 1)) * 10 + DigitValue(t[Len(t)])

Abs(i) == IF i < 0 THEN -i ELSE i
Repeat(c, n) == [i \in 1..n |-> c]

\* ", ".join(texts)
RECURSIVE Join(_, _)
Join(texts, sep) ==
    IF texts = <<>> THEN <<>>
    ELSE IF Len(texts) = 1 THEN texts[1]
    ELSE texts[1] \o sep \o Join(Tail(texts), sep)

\* text.replace(c, '')
Without(t, c) == SelectSeq(t, LAMBDA x : x # c)

\* string.ljust(text, width): padded with spaces to the width, never cut.
ljust(t, width) == IF Len(t) >= width THEN t ELSE t \o Repeat(" ", width - Len(t))

RECURSIVE lstrip(_)
lstrip(t) == IF t # <<>> /\ IsSpace(Head(t)) THEN lstrip(Tail(t)) ELSE t
RECURSIVE rstrip(_)
rstrip(t) == IF t # <<>> /\ IsSpace(t[Len(t)]) THEN rstrip(SubSeq(t, 1, Len(t) - 1))
             ELSE t
\* str.strip()
strip(t) == rstrip(lstrip(t))

\* The length of the word a text starts with.
RECURSIVE WordLen(_)
WordLen(t) == IF t = <<>> \/ IsSpace(Head(t)) THEN 0 ELSE 1 + WordLen(Tail(t))

\* str.split(): the words between runs of whitespace.
RECURSIVE split(_)
split(t) ==
    LET u == lstrip(t)
    IN  IF u = <<>> THEN <<>>
        ELSE <<SubSeq(u, 1, WordLen(u))>> \o split(SubSeq(u, WordLen(u) + 1, Len(u)))

\* The places where "=:" starts in a line.
Separators(line) == {i \in 1..(Len(line) - 1) : line[i] = "=" /\ line[i + 1] = ":"}

---------------------------------------------------------------------------
(* repr(value), by type.                                                   *)

repr_int(i) == IF i < 0 THEN <<"-">> \o Digits(-i) ELSE Digits(i)

\* A float is m * 10^-d with m not a multiple of 10 (0.0 is m = 0, d = 0).
RECURSIVE Canonical(_, _)
Canonical(m, d) ==
    IF m = 0 THEN [m |-> 0, d |-> 0]
    ELSE IF m % 10 = 0 THEN Canonical(m \div 10, d - 1)
    ELSE [m |-> m, d |-> d]

\* repr of a float (Python 2.7: the shortest digits that read back; an
\* exponent when the decimal point is more than 16 places right of the first
\* digit or 4 or more places left of it).
repr_float(m, d) ==
    LET digits == Digits(Abs(m))
        ndig == Len(digits)
        decpt == ndig - d
        sign == IF m < 0 THEN <<"-">> ELSE <<>>
        exp == decpt - 1
        expText == (IF exp < 0 THEN <<"-">> ELSE <<"+">>)
                   \o (IF Abs(exp) < 10 THEN <<"0">> ELSE <<>>) \o Digits(Abs(exp))
    IN  IF m = 0 THEN <<"0", ".", "0">>
        ELSE IF decpt <= -4 \/ decpt > 16
        THEN sign \o <<digits[1]>>
             \o (IF ndig > 1 THEN <<".">> \o Tail(digits) ELSE <<>>)
             \o <<"e">> \o expText
        ELSE IF decpt <= 0
        THEN sign \o <<"0", ".">> \o Repeat("0", -decpt) \o digits
        ELSE IF decpt >= ndig
        THEN sign \o digits \o Repeat("0", decpt - ndig) \o <<".", "0">>
        ELSE sign \o SubSeq(digits, 1, decpt) \o <<".">> \o SubSeq(digits, decpt + 1, ndig)

\* The characters of a string inside its repr: a backslash before a
\* backslash and before the quote in use, \n and \t for a newline and a tab.
RECURSIVE Escaped(_, _)
Escaped(t, quote) ==
    IF t = <<>> THEN <<>>
    ELSE (CASE Head(t) = "\\" -> <<"\\", "\\">>
            [] Head(t) = quote -> <<"\\", quote>>
            [] Head(t) = "\n" -> <<"\\", "n">>
            [] Head(t) = "\t" -> <<"\\", "t">>
            [] OTHER -> <<Head(t)>>) \o Escaped(Tail(t), quote)

\* repr of a string of printable characters: in single quotes, or in double
\* quotes when it holds a single quote and no double one.
repr_str(t) ==
    LET quote == IF "'" \in Range(t) /\ "\"" \notin Range(t) THEN "\"" ELSE "'"
    IN  <<quote>> \o Escaped(t, quote) \o <<quote>>

repr_scalar(v) ==
    CASE v.k = "int" -> repr_int(v.n)
      [] v.k = "float" -> repr_float(v.n, v.e)
      [] v.k = "bool" -> IF v.n = 1 THEN <<"T", "r", "u", "e">>
                         ELSE <<"F", "a", "l", "s", "e">>
      [] v.k = "str" -> repr_str(v.s)
      [] OTHER -> <<"N", "o", "n", "e">>

\* repr of a value; a list is "[" + ", ".join(repr of each element) + "]".
repr(v) ==
    IF v.k = "list"
    THEN <<"[">> \o Join([i \in 1..Len(v.l) |-> repr_scalar(v.l[i])], <<",", " ">>)
         \o <<"]">>
    ELSE repr_scalar(v)

---------------------------------------------------------------------------
(* data_write's value text and line, and the read path's decoder.          *)

\* The width data_write pads the value and the name to.
FieldWidth == 20

\* string_value: a list is its repr without the brackets and the commas, a
\* boolean is T or F, anything else is its repr.
string_value(value) ==
    IF value.k = "list"
    THEN Without(SubSeq(repr(value), 2, Len(repr(value)) - 1), ",")
    ELSE IF value.k = "bool" THEN (IF value.n = 1 THEN <<"T">> ELSE <<"F">>)
    ELSE repr(value)

\* The line data_write writes: '%s =: %s\n' of the padded value and name, or
\* '%s =: %s # %s \n' with a description.
FieldLine(value, alt_name, description) ==
    ljust(string_value(value), FieldWidth) \o <<" ", "=", ":", " ">>
    \o ljust(alt_name, FieldWidth)
    \o (IF description # <<>> THEN <<" ", "#", " ">> \o description \o <<" ">>
        ELSE <<>>)

\* int(text): an optional sign and digits.
Unsigned(t) == IF t # <<>> /\ t[1] \in {"-", "+"} THEN Tail(t) ELSE t
IsIntText(t) == Unsigned(t) # <<>> /\ \A i \in 1..Len(Unsigned(t)) : IsDigit(Unsigned(t)[i])
IntOf(t) == (IF t[1] = "-" THEN -1 ELSE 1) * DigitsValue(Unsigned(t))

\* float(text): an optional sign, digits with at most one point among them,
\* and an optional exponent.  (inf, nan and infinity are not spelled by any
\* text of the model.)
Mantissa(t) ==
    LET u == Unsigned(t)
        es == {i \in 1..Len(u) : u[i] \in {"e", "E"}}
    IN  IF es = {} THEN u ELSE SubSeq(u, 1, (CHOOSE i \in es : \A j \in es : i <= j) - 1)
Exponent(t) ==
    LET u == Unsigned(t)
        es == {i \in 1..Len(u) : u[i] \in {"e", "E"}}
    IN  IF es = {} THEN <<"0">>
        ELSE SubSeq(u, (CHOOSE i \in es : \A j \in es : i <= j) + 1, Len(u))
IsFloatText(t) ==
    LET mant == Mantissa(t)
        dots == {i \in 1..Len(mant) : mant[i] = "."}
    IN  /\ Cardinality(dots) <= 1
        /\ \A i \in 1..Len(mant) : IsDigit(mant[i]) \/ mant[i] = "."
        /\ \E i \in 1..Len(mant) : IsDigit(mant[i])
        /\ IsIntText(Exponent(t))
FloatOf(t) ==
    LET mant == Mantissa(t)
        dots == {i \in 1..Len(mant) : mant[i] = "."}
        point == IF dots = {} THEN Len(mant) + 1 ELSE CHOOSE i \in dots : TRUE
        frac == SubSeq(mant, point + 1, Len(mant))
        m == (IF t[1] = "-" THEN -1 ELSE 1) * DigitsValue(Without(mant, "."))
        c == Canonical(m, Len(frac) - IntOf(Exponent(t)))
    IN  FloatV(c.m, c.d)

\* One word of a value text: int(value), else float(value), else True or
\* False by the first character, else the text itself.
parse_scalar(t) ==
    IF IsIntText(t) THEN IntV(IntOf(t))
    ELSE IF IsFloatText(t) THEN FloatOf(t)
    ELSE IF t[1] = "T" THEN BoolV(TRUE)
    ELSE IF t[1] = "F" THEN BoolV(FALSE)
    ELSE StrV(t)

\* _parse_value: None for an empty text, a list of the words' values for
\* several words, the word's value for one.
_parse_value(value) ==
    LET words == split(strip(value))
    IN  IF strip(value) = <<>> THEN NoneV
        ELSE IF Len(words) > 1
        THEN ListV([i \in 1..Len(words) |-> parse_scalar(words[i])])
        ELSE parse_scalar(strip(value))

\* line.split("=:") of a line with one "=:": the text before it, the text after.
ValuePart(line) == SubSeq(line, 1, (CHOOSE i \in Separators(line) : TRUE) - 1)
TailPart(line) == SubSeq(line, (CHOOSE i \in Separators(line) : TRUE) + 2, Len(line))

---------------------------------------------------------------------------
(* ClawData: the restricted attribute set.                                 *)

\* The record's attribute state as one value, for the operators below.
Rec(attrs, d) == [attributes |-> attrs, dict |-> d]

\* object.__setattr__(self, name, value) and getattr(self, name) on the
\* instance's attributes.
DictSet(d, name, value) == (name :> value) @@ d
DictGet(d, name) == IF name \in DOMAIN d THEN d[name] ELSE Absent

\* add_attribute without the membership test: the name is appended again.
add_attribute_dup(rec, name, value, add_to_list) ==
    [attributes |-> IF add_to_list THEN Append(rec.attributes, name)
                    ELSE rec.attributes,
     dict |-> DictSet(rec.dict, name, value)]

\* add_attribute: append the name unless listed (or add_to_list is false), set it.
add_attribute(rec, name, value, add_to_list) ==
    [attributes |-> IF name \notin Range(rec.attributes) /\ add_to_list
                    THEN Append(rec.attributes, name)
                    ELSE rec.attributes,
     dict |-> DictSet(rec.dict, name, value)]

\* add_attributes: add_attribute for each name of the list, in order.
RECURSIVE add_attributes(_, _, _)
add_attributes(rec, arg_list, value) ==
    IF arg_list = <<>> THEN rec
    ELSE add_attributes(add_attribute(rec, Head(arg_list), value, TRUE),
                        Tail(arg_list), value)

\* list.remove(x): the first occurrence of x is taken out.
RECURSIVE ListRemove(_, _)
ListRemove(seq, x) ==
    IF seq = <<>> THEN <<>>
    ELSE IF Head(seq) = x THEN Tail(seq)
    ELSE <<Head(seq)>> \o ListRemove(Tail(seq), x)

\* remove_attributes that forgets the delattr: the value stays readable.
RECURSIVE remove_attributes_keep(_, _)
remove_attributes_keep(rec, arg_list) ==
    IF arg_list = <<>> THEN [rec |-> rec, err |-> OK]
    ELSE LET arg == Head(arg_list)
         IN  IF arg \notin Range(rec.attributes)
             THEN [rec |-> rec, err |-> ValueError]
             ELSE remove_attributes_keep(
                      Rec(ListRemove(rec.attributes, arg), rec.dict),
                      Tail(arg_list))

\* remove_attributes: for each listed name, _attributes.remove(arg) (ValueError
\* when it is not in the list) and then delattr (AttributeError when the
\* instance has no such attribute).  What was removed before a failure stays
\* removed.
RECURSIVE remove_attributes(_, _)
remove_attributes(rec, arg_list) ==
    IF arg_list = <<>> THEN [rec |-> rec, err |-> OK]
    ELSE LET arg == Head(arg_list)
         IN  IF arg \notin Range(rec.attributes)
             THEN [rec |-> rec, err |-> ValueError]
             ELSE LET removed == ListRemove(rec.attributes, arg)
                  IN  IF DictGet(rec.dict, arg) = Absent
                      THEN [rec |-> Rec(removed, rec.dict), err |-> AttributeError]
                      ELSE remove_attributes(
                               Rec(removed, DictSet(rec.dict, arg, Absent)),
                               Tail(arg_list))

\* __setattr__ that assigns whatever the name.
setattr_unchecked(rec, name, value) ==
    [rec |-> Rec(rec.attributes, DictSet(rec.dict, name, value)), err |-> OK]

\* __setattr__: AttributeError for a name neither listed nor private.
setattr(rec, name, value) ==
    IF name \notin Range(rec.attributes) /\ ~IsPrivate(name)
    THEN [rec |-> rec, err |-> AttributeError]
    ELSE [rec |-> Rec(rec.attributes, DictSet(rec.dict, name, value)), err |-> OK]

\* has_attribute
has_attribute(rec, name) == name \in Range(rec.attributes)

\* iteritems over every attribute of the instance instead of the declared list.
iteritems_all(rec) ==
    LET extra == CHOOSE q \in [1..Cardinality({n \in Names : rec.dict[n] # Absent})
                               -> {n \in Names : rec.dict[n] # Absent}] :
                     \A i, j \in DOMAIN q : i # j => q[i] # q[j]
    IN  [items |-> [i \in DOMAIN extra |-> <<extra[i], rec.dict[extra[i]]>>],
         err |-> OK]

\* iteritems: [(k, getattr(self, k)) for k in self._attributes]
iteritems(rec) ==
    IF \E i \in 1..Len(rec.attributes) : DictGet(rec.dict, rec.attributes[i]) = Absent
    THEN [items |-> <<>>, err |-> AttributeError]
    ELSE [items |-> [i \in 1..Len(rec.attributes) |->
                        <<rec.attributes[i], DictGet(rec.dict, rec.attributes[i])>>],
          err |-> OK]

---------------------------------------------------------------------------
(* ClawData: the output file, data_write, write and read.                  *)

IOError == "IOError"
IndexError == "IndexError"

\* The path the record is written to and read from.
Paths == {"f.data"}

BannerRule ==
    <<"#", "#", "#", "#", "#", "#", "#", "#", "#", "#", "#", "#",
      "#", "#", "#", "#", "#", "#", "#", "#", "#", "#", "#", "#",
      "#", "#", "#", "#", "#", "#", "#", "#", "#", "#", "#", "#",
      "#", "#", "#", "#", "#", "#", "#", "#", "#", "#", "#", "#",
      "#", "#", "#", "#", "#", "#", "#", "#">>
BannerDoNotEdit ==
    <<"#", "#", "#", " ", "D", "O", " ", "N", "O", "T", " ", "E",
      "D", "I", "T", " ", "T", "H", "I", "S", " ", "F", "I", "L",
      "E", ":", " ", " ", "G", "E", "N", "E", "R", "A", "T", "E",
      "D", " ", "A", "U", "T", "O", "M", "A", "T", "I", "C", "A",
      "L", "L", "Y", " ", "#", "#", "#", "#">>
BannerEditHead ==
    <<"#", "#", "#", " ", "T", "o", " ", "m", "o", "d", "i", "f",
      "y", " ", "d", "a", "t", "a", ",", " ", "e", "d", "i", "t",
      " ", " ">>
BannerEditTail ==
    <<" ", "#", "#", "#", "#">>
BannerMake ==
    <<"#", "#", "#", " ", " ", " ", " ", "a", "n", "d", " ", "t",
      "h", "e", "n", " ", "\"", "m", "a", "k", "e", " ", ".", "d",
      "a", "t", "a", "\"", " ", " ", " ", " ", " ", " ", " ", " ",
      " ", " ", " ", " ", " ", " ", " ", " ", " ", " ", " ", " ",
      " ", " ", " ", " ", "#", "#", "#", "#">>
SetrunPy ==
    <<"s", "e", "t", "r", "u", "n", ".", "p", "y">>

\* The header open_data_file writes: five lines and an empty one.
Banner(datasource) ==
    <<BannerRule, BannerDoNotEdit,
      BannerEditHead \o ljust(datasource, 25) \o BannerEditTail,
      BannerMake, BannerRule, <<>>>>

\* A file object is unflushed while it is open, and for good once it was
\* dropped without a close: a reader then sees some prefix of what was
\* written.
Unflushed(path) == path = _out_file \/ path \in leaked

\* open_data_file: self._out_file = open(name, 'w'), whatever it held
\* before, and the header.
open_data_file(handle, name, datasource) ==
    [handle |-> name,
     dropped |-> IF handle = "None" THEN {} ELSE {handle},
     written |-> Banner(datasource),
     err |-> OK]

\* close_data_file: self._out_file.close() (AttributeError on None), then
\* self._out_file = None.
close_data_file(handle) ==
    IF handle = "None" THEN [handle |-> handle, err |-> AttributeError]
    ELSE [handle |-> "None", err |-> OK]

\* data_write: the line it writes to the open file (lines: none or one), or
\* the exception it raises.  name, value and alt_name are None when not given.
data_write(rec, handle, name, value, alt_name, description) ==
    LET alt == IF alt_name = NoneV THEN name ELSE alt_name
        val == IF value = NoneV THEN DictGet(rec.dict, name.s) ELSE value
    IN  IF handle = "None" THEN [lines |-> <<>>, err |-> Exception]
        ELSE IF name = NoneV /\ value = NoneV THEN [lines |-> << <<>> >>, err |-> OK]
        ELSE IF val = Absent THEN [lines |-> <<>>, err |-> AttributeError]
        ELSE IF alt = NoneV THEN [lines |-> <<>>, err |-> AttributeError]
        ELSE [lines |-> <<FieldLine(val, alt.s, description)>>, err |-> OK]

\* The loop of ClawData.write: data_write(name) for each pair of iteritems.
RECURSIVE write_fields(_, _, _)
write_fields(rec, handle, names) ==
    IF names = <<>> THEN [lines |-> <<>>, err |-> OK]
    ELSE LET one == data_write(rec, handle, StrV(Head(names)), NoneV, NoneV, <<>>)
             rest == write_fields(rec, handle, Tail(names))
         IN  IF one.err # OK THEN one
             ELSE [lines |-> one.lines \o rest.lines, err |-> rest.err]

\* ClawData.write: open_data_file, then data_write(name) for each declared
\* name.  The file is not closed.
write(rec, handle, out_file, data_source) ==
    LET opened == open_data_file(handle, out_file, data_source)
        listed == iteritems(rec)
        fields == write_fields(rec, opened.handle, rec.attributes)
    IN  [handle |-> opened.handle,
         dropped |-> opened.dropped,
         written |-> opened.written \o (IF listed.err = OK THEN fields.lines ELSE <<>>),
         err |-> IF listed.err # OK THEN listed.err ELSE fields.err]

\* The loop body of read with the test of line 251 left out: an undeclared
\* name is added whatever force is.
read_line_always(rec, text, force) ==
    IF Separators(text) = {} THEN [rec |-> rec, err |-> OK]
    ELSE IF Cardinality(Separators(text)) > 1 THEN [rec |-> rec, err |-> ValueError]
    ELSE IF split(TailPart(text)) = <<>> THEN [rec |-> rec, err |-> IndexError]
    ELSE LET varname == split(TailPart(text))[1]
         IN  IF ~has_attribute(rec, varname)
             THEN [rec |-> add_attribute(rec, varname,
                                         _parse_value(ValuePart(text)), TRUE),
                   err |-> OK]
             ELSE setattr(rec, varname, _parse_value(ValuePart(text)))

\* One line of read: skipped without "=:"; value, tail = line.split("=:")
\* (ValueError unless there are two parts); varname = tail.split()[0]
\* (IndexError for a blank tail); then, when the name is declared or force is
\* set, the parsed value is set (declared) or added with add_attribute.
read_line(rec, text, force) ==
    IF Separators(text) = {} THEN [rec |-> rec, err |-> OK]
    ELSE IF Cardinality(Separators(text)) > 1 THEN [rec |-> rec, err |-> ValueError]
    ELSE IF split(TailPart(text)) = <<>> THEN [rec |-> rec, err |-> IndexError]
    ELSE LET varname == split(TailPart(text))[1]
         IN  IF has_attribute(rec, varname) \/ force
             THEN IF ~has_attribute(rec, varname)
                  THEN [rec |-> add_attribute(rec, varname,
                                              _parse_value(ValuePart(text)), TRUE),
                        err |-> OK]
                  ELSE setattr(rec, varname, _parse_value(ValuePart(text)))
             ELSE [rec |-> rec, err |-> OK]

\* read: every line of the file in order, up to the first exception.
RECURSIVE read(_, _, _)
read(rec, lines, force) ==
    IF lines = <<>> THEN [rec |-> rec, err |-> OK]
    ELSE LET one == read_line(rec, Head(lines), force)
         IN  IF one.err # OK THEN one ELSE read(one.rec, Tail(lines), force)

Self == Rec(_attributes, dict)

\* ClawData.__init__(attributes): an empty list of names, no handle, and
\* add_attribute(attr, None) for each name given.
Constructed(attrs) == add_attributes(Rec(<<>>, [n \in Names |-> Absent]), attrs, NoneV)

\* No handle, no file written yet, no value in the codec.
NoOriginal == [path |-> "None", attributes |-> <<>>, dict |-> [n \in Names |-> Absent],
               content |-> <<>>]
InitIO ==
    /\ _out_file = "None"
    /\ files = [p \in {} |-> <<>>]
    /\ leaked = {}
    /\ original = NoOriginal
InitCodecIdle ==
    /\ sample = NoneV
    /\ encoded = <<>>
    /\ decoded = NoneV


\* A record of a class on its own: it holds no data objects.
InitObject(c) ==
    /\ class = c
    /\ objects = <<>>
    /\ writes = <<>>

CodecUnchanged == UNCHANGED <<sample, encoded, decoded>>
TreeUnchanged == UNCHANGED <<class, objects, writes>>
IOUnchanged ==
    /\ UNCHANGED <<_out_file, files, leaked, original>>
    /\ CodecUnchanged
    /\ TreeUnchanged

AddAttribute(name, value, add_to_list) ==
    LET new == add_attribute(Self, name, value, add_to_list)
    IN  /\ _attributes' = new.attributes
        /\ dict' = new.dict
        /\ call' = Call("add_attribute", name, value, add_to_list, <<>>)
        /\ err' = OK
        /\ ret' = NoneV
        /\ items' = <<>>
        /\ IOUnchanged

AddAttributes(arg_list, value) ==
    LET new == add_attributes(Self, arg_list, value)
    IN  /\ _attributes' = new.attributes
        /\ dict' = new.dict
        /\ call' = Call("add_attributes", <<>>, value, TRUE, arg_list)
        /\ err' = OK
        /\ ret' = NoneV
        /\ items' = <<>>
        /\ IOUnchanged

\* A single name is wrapped into a list first (lines 105-106).
RemoveAttributes(arg_list) ==
    LET new == remove_attributes(Self, arg_list)
    IN  /\ _attributes' = new.rec.attributes
        /\ dict' = new.rec.dict
        /\ call' = Call("remove_attributes", <<>>, NoneV, TRUE, arg_list)
        /\ err' = new.err
        /\ ret' = NoneV
        /\ items' = <<>>
        /\ IOUnchanged

SetAttr(name, value) ==
    LET new == setattr(Self, name, value)
    IN  /\ _attributes' = new.rec.attributes
        /\ dict' = new.rec.dict
        /\ call' = Call("setattr", name, value, TRUE, <<>>)
        /\ err' = new.err
        /\ ret' = NoneV
        /\ items' = <<>>
        /\ IOUnchanged

\* Plain attribute read: the value, or AttributeError when there is none.
GetAttr(name) ==
    /\ call' = Call("getattr", name, NoneV, TRUE, <<>>)
    /\ err' = IF dict[name] = Absent THEN AttributeError ELSE OK
    /\ ret' = IF dict[name] = Absent THEN NoneV ELSE dict[name]
    /\ items' = <<>>
    /\ UNCHANGED <<_attributes, dict>>
    /\ IOUnchanged

IterItems ==
    LET got == iteritems(Self)
    IN  /\ call' = Call("iteritems", <<>>, NoneV, TRUE, <<>>)
        /\ err' = got.err
        /\ ret' = NoneV
        /\ items' = got.items
        /\ UNCHANGED <<_attributes, dict>>
        /\ IOUnchanged

AttrUnchanged == UNCHANGED <<_attributes, dict, ret, items>>

\* A new record takes the place of the current one, which keeps whatever
\* file object it holds.
Construct(attrs) ==
    /\ _attributes' = Constructed(attrs).attributes
    /\ dict' = Constructed(attrs).dict
    /\ _out_file' = "None"
    /\ leaked' = leaked \cup (IF _out_file = "None" THEN {} ELSE {_out_file})
    /\ call' = Call("__init__", <<>>, NoneV, TRUE, attrs)
    /\ err' = OK
    /\ UNCHANGED <<files, original, ret, items>>
    /\ CodecUnchanged
    /\ TreeUnchanged

OpenDataFile(path) ==
    LET opened == open_data_file(_out_file, path, SetrunPy)
    IN  /\ _out_file' = opened.handle
        /\ leaked' = leaked \cup opened.dropped
        /\ files' = IF opened.err = OK THEN DictSet(files, path, opened.written)
                    ELSE files
        /\ call' = CallIO("open_data_file", path, TRUE)
        /\ err' = opened.err
        /\ UNCHANGED original
        /\ AttrUnchanged
        /\ CodecUnchanged
        /\ TreeUnchanged

CloseDataFile ==
    LET closed == close_data_file(_out_file)
    IN  /\ _out_file' = closed.handle
        /\ call' = CallIO("close_data_file", "None", TRUE)
        /\ err' = closed.err
        /\ UNCHANGED <<files, leaked, original>>
        /\ AttrUnchanged
        /\ CodecUnchanged
        /\ TreeUnchanged

DataWrite(name, value, alt_name, description) ==
    LET wrote == data_write(Self, _out_file, name, value, alt_name, description)
    IN  /\ _out_file # "None" => Len(files[_out_file]) < Len(Banner(SetrunPy)) + MaxFieldLines
        /\ files' = IF wrote.lines = <<>> THEN files
                    ELSE DictSet(files, _out_file, files[_out_file] \o wrote.lines)
        /\ call' = Call("data_write", name.s, value, TRUE, <<>>)
        /\ err' = wrote.err
        /\ UNCHANGED <<_out_file, leaked, original>>
        /\ AttrUnchanged
        /\ CodecUnchanged
        /\ TreeUnchanged

Write(path) ==
    \E wrote \in {write(Self, _out_file, path, SetrunPy)} :
        /\ _out_file' = wrote.handle
        /\ leaked' = leaked \cup wrote.dropped
        /\ files' = DictSet(files, path, wrote.written)
        /\ original' = [path |-> path, attributes |-> _attributes, dict |-> dict,
                        content |-> wrote.written]
        /\ call' = CallIO("write", path, TRUE)
        /\ err' = wrote.err
        /\ AttrUnchanged
        /\ CodecUnchanged
        /\ TreeUnchanged

\* read: IOError when there is no such file; else the lines a reader sees
\* (all of them, or a prefix while a file object holds unflushed output).
Read(path, force) ==
    /\ call' = CallIO("read", path, force)
    /\ IF path \notin DOMAIN files
       THEN /\ err' = IOError
            /\ UNCHANGED <<_attributes, dict>>
       ELSE \E k \in 0..Len(files[path]) :
               /\ ~Unflushed(path) => k = Len(files[path])
               /\ \E got \in {read(Self, SubSeq(files[path], 1, k), force)} :
                     /\ _attributes' = got.rec.attributes
                     /\ dict' = got.rec.dict
                     /\ err' = got.err
    /\ UNCHANGED <<_out_file, files, leaked, original, ret, items>>
    /\ CodecUnchanged
    /\ TreeUnchanged

\* The record of the file operations: a, b and c hold None or the value
\* FieldValue gives them (a = 5, b = [1, 2, 3], c = True).
IONames == {NameA, NameB, NameC}
IOAttrLists == {<<NameA>>, <<NameA, NameB, NameC>>}
FieldValue(name) ==
    CASE name = NameA -> IntV(5)
      [] name = NameB -> ListV(<<IntV(1), IntV(2), IntV(3)>>)
      [] OTHER -> BoolV(TRUE)

InitRecord(lists) ==
    /\ \E attrs \in lists :
          /\ _attributes = Constructed(attrs).attributes
          /\ dict = Constructed(attrs).dict
    /\ InitIO
    /\ InitCodecIdle
    /\ InitObject("ClawData")
    /\ call = NoCall
    /\ err = OK
    /\ ret = NoneV
    /\ items = <<>>

(* The output handle: open_data_file, data_write and close_data_file in any *)
(* order on a record that declares a.                                      *)
InitFiles == InitRecord({<<NameA>>})

NextFiles ==
    \/ SetAttr(NameA, FieldValue(NameA))
    \/ \E path \in Paths : OpenDataFile(path)
    \/ CloseDataFile
    \/ \E name \in {NoneV, StrV(NameA)}, value \in {NoneV, IntV(7)},
          alt_name \in {NoneV, StrV(NameB)} :
          DataWrite(name, value, alt_name, <<>>)
    \/ DataWrite(StrV(NameA), NoneV, NoneV, <<"d">>)

SpecFiles == InitFiles /\ [][NextFiles]_vars

(* Whole records written with write and read back with read, by the record  *)
(* that wrote them or by a new one.                                        *)
InitRoundTrip == InitRecord(IOAttrLists)

\* The records written hold no string: a string is written quoted and read
\* back with its quotes, longer at every round.
NoStrings == \A n \in Range(_attributes) : DictGet(dict, n).k # "str"

NextRoundTrip ==
    \/ \E attrs \in IOAttrLists : Construct(attrs)
    \/ \E name \in IONames : SetAttr(name, FieldValue(name))
    \/ \E path \in Paths : NoStrings /\ Write(path)
    \/ CloseDataFile
    \/ \E path \in Paths, force \in BOOLEAN : Read(path, force)

SpecRoundTrip == InitRoundTrip /\ [][NextRoundTrip]_vars

(* read on data files of any make: field lines of declared and undeclared  *)
(* names, a name on several lines, header and empty lines.                 *)

\* Sequences of at most n elements of a set.
RECURSIVE SeqsUpTo(_, _)
SeqsUpTo(S, n) ==
    IF n = 0 THEN {<<>>}
    ELSE LET shorter == SeqsUpTo(S, n - 1)
         IN  shorter \cup {Append(q, x) : q \in {u \in shorter : Len(u) = n - 1},
                                         x \in S}

\* Lines of a data file: as data_write and open_data_file make them.
FileLines ==
    {FieldLine(IntV(5), NameA, <<>>),
     FieldLine(ListV(<<IntV(1), IntV(2)>>), NameA, <<"d">>),
     FieldLine(BoolV(TRUE), NameB, <<>>),
     FieldLine(IntV(7), NameC, <<>>),
     BannerRule,
     <<>>}
ReadAttrLists == {<<>>, <<NameA>>, <<NameB, NameA>>}

InitRead ==
    /\ \E attrs \in ReadAttrLists :
          /\ _attributes = Constructed(attrs).attributes
          /\ dict = Constructed(attrs).dict
    /\ _out_file = "None"
    /\ \E lines \in SeqsUpTo(FileLines, MaxLines), path \in Paths :
          files = (path :> lines)
    /\ leaked = {}
    /\ original = NoOriginal
    /\ InitCodecIdle
    /\ InitObject("ClawData")
    /\ call = NoCall
    /\ err = OK
    /\ ret = NoneV
    /\ items = <<>>

NextRead ==
    \/ \E path \in Paths, force \in BOOLEAN : Read(path, force)
    \/ \E name \in {NameA, NameB} : SetAttr(name, FieldValue(name))

SpecRead == InitRead /\ [][NextRead]_vars

Init == InitRecord(NameLists(AttrNames, MaxArgs))

Next ==
    \/ \E name \in AttrNames, value \in AttrValues, add_to_list \in BOOLEAN :
          AddAttribute(name, value, add_to_list)
    \/ \E arg_list \in NameLists(AttrNames, MaxArgs), value \in AttrValues :
          AddAttributes(arg_list, value)
    \/ \E arg_list \in NameLists(AttrNames, MaxArgs) : RemoveAttributes(arg_list)
    \/ \E name \in AttrNames, value \in AttrValues : SetAttr(name, value)
    \/ \E name \in AttrNames : GetAttr(name)
    \/ IterItems

Spec == Init /\ [][Next]_vars

---------------------------------------------------------------------------
(* The write() methods of the data classes.  A write() is the list of the  *)
(* calls it makes on the record, run in order up to the first exception.   *)

TypeError == "TypeError"
NotImplementedError == "NotImplementedError"

\* The calls a write() makes: open_data_file(path), data_write(name, value,
\* alt_name, description), close_data_file(), self._out_file.write(lines),
\* self.name = value, and raise.
OpenCall(path) ==
    [op |-> "open_data_file", path |-> path, name |-> NoneV, value |-> NoneV,
     alt_name |-> NoneV, description |-> <<>>, lines |-> <<>>, err |-> OK]
WriteCall(name, value, alt_name, description) ==
    [op |-> "data_write", path |-> "None", name |-> name, value |-> value,
     alt_name |-> alt_name, description |-> description, lines |-> <<>>,
     err |-> OK]
CloseCall ==
    [op |-> "close_data_file", path |-> "None", name |-> NoneV, value |-> NoneV,
     alt_name |-> NoneV, description |-> <<>>, lines |-> <<>>, err |-> OK]
RawCall(lines) ==
    [op |-> "write", path |-> "None", name |-> NoneV, value |-> NoneV,
     alt_name |-> NoneV, description |-> <<>>, lines |-> lines, err |-> OK]
SetCall(name, value) ==
    [op |-> "setattr", path |-> "None", name |-> StrV(name), value |-> value,
     alt_name |-> NoneV, description |-> <<>>, lines |-> <<>>, err |-> OK]
RaiseCall(e) ==
    [op |-> "raise", path |-> "None", name |-> NoneV, value |-> NoneV,
     alt_name |-> NoneV, description |-> <<>>, lines |-> <<>>, err |-> e]

\* The record, its handle and the files while a write() runs.
Running(rec, handle, fs, lk) ==
    [rec |-> rec, handle |-> handle, files |-> fs, leaked |-> lk, err |-> OK]

\* One call of a write() on the running state.
RunCall(st, c, data_source) ==
    CASE c.op = "open_data_file" ->
           [st EXCEPT !.handle = open_data_file(st.handle, c.path, data_source).handle,
                      !.leaked = @ \cup open_data_file(st.handle, c.path,
                                                       data_source).dropped,
                      !.files = DictSet(@, c.path, Banner(data_source))]
      [] c.op = "data_write" ->
           LET wrote == data_write(st.rec, st.handle, c.name, c.value, c.alt_name,
                                   c.description)
           IN  [st EXCEPT !.files = IF wrote.lines = <<>> THEN @
                                    ELSE DictSet(@, st.handle,
                                                 @[st.handle] \o wrote.lines),
                          !.err = wrote.err]
      [] c.op = "close_data_file" ->
           [st EXCEPT !.handle = close_data_file(st.handle).handle,
                      !.err = close_data_file(st.handle).err]
      [] c.op = "write" ->
           IF st.handle = "None" THEN [st EXCEPT !.err = AttributeError]
           ELSE [st EXCEPT !.files = DictSet(@, st.handle, @[st.handle] \o c.lines)]
      [] c.op = "setattr" ->
           [st EXCEPT !.rec = setattr(st.rec, c.name.s, c.value).rec,
                      !.err = setattr(st.rec, c.name.s, c.value).err]
      [] OTHER -> [st EXCEPT !.err = c.err]

\* The calls in order; the first exception ends the write().  (The first
\* half of the calls, then the second half on the state the first left.)
RECURSIVE RunCalls(_, _, _)
RunCalls(st, calls, data_source) ==
    IF calls = <<>> \/ st.err # OK THEN st
    ELSE IF Len(calls) = 1 THEN RunCall(st, calls[1], data_source)
    ELSE RunCalls(RunCalls(st, SubSeq(calls, 1, Len(calls) \div 2), data_source),
                  SubSeq(calls, Len(calls) \div 2 + 1, Len(calls)), data_source)

---------------------------------------------------------------------------
(* Python's tests and '%' formats, as the write() methods use them.        *)

RECURSIVE Pow10(_)
Pow10(n) == IF n = 0 THEN 1 ELSE 10 * Pow10(n - 1)

IsNumber(v) == v.k \in {"int", "bool", "float"}
\* bool(v)
Truthy(v) ==
    CASE IsNumber(v) -> v.n # 0
      [] v.k = "str" -> v.s # <<>>
      [] v.k = "list" -> v.l # <<>>
      [] OTHER -> FALSE
\* v == i for an integer i
NumEq(v, i) ==
    /\ IsNumber(v)
    /\ IF v.e <= 0 THEN v.n * Pow10(-v.e) = i ELSE v.n = i * Pow10(v.e)
\* int(v) of a number: cut towards zero
IntPart(v) ==
    IF v.e <= 0 THEN v.n * Pow10(-v.e)
    ELSE IF v.n < 0 THEN -((-v.n) \div Pow10(v.e)) ELSE v.n \div Pow10(v.e)

rjust(t, width) == IF Len(t) >= width THEN t ELSE Repeat(" ", width - Len(t)) \o t

\* The two or more digits of an exponent, with its sign.
ExponentText(exp) ==
    (IF exp < 0 THEN <<"-">> ELSE <<"+">>)
    \o (IF Abs(exp) < 10 THEN <<"0">> ELSE <<>>) \o Digits(Abs(exp))

\* '%3i' % v
Format3i(v) == rjust(repr_int(IntPart(v)), 3)

\* '%20.10e' % v, for a number of at most eleven digits
Format20_10e(v) ==
    LET c == Canonical(v.n, v.e)
        digits == Digits(Abs(c.m))
        exp == IF c.m = 0 THEN 0 ELSE Len(digits) - c.d - 1
    IN  rjust((IF c.m < 0 THEN <<"-">> ELSE <<>>)
              \o <<digits[1], ".">> \o Tail(digits)
              \o Repeat("0", 11 - Len(digits))
              \o <<"e">> \o ExponentText(exp), 20)

\* '%g' % v, for a number of at most six digits
FormatG(v) ==
    LET c == Canonical(v.n, v.e)
        digits == Digits(Abs(c.m))
        ndig == Len(digits)
        decpt == ndig - c.d
        sign == IF c.m < 0 THEN <<"-">> ELSE <<>>
    IN  IF c.m = 0 THEN <<"0">>
        ELSE IF decpt - 1 < -4 \/ decpt - 1 >= 6
        THEN sign \o <<digits[1]>>
             \o (IF ndig > 1 THEN <<".">> \o Tail(digits) ELSE <<>>)
             \o <<"e">> \o ExponentText(decpt - 1)
        ELSE IF decpt <= 0
        THEN sign \o <<"0", ".">> \o Repeat("0", -decpt) \o digits
        ELSE IF decpt >= ndig
        THEN sign \o digits \o Repeat("0", decpt - ndig)
        ELSE sign \o SubSeq(digits, 1, decpt) \o <<".">> \o SubSeq(digits, decpt + 1, ndig)

\* The working directory of the process.
Cwd == <<"/", "w">>
\* os.path.abspath of a path that needs no normalising (no ".", ".." or
\* empty component).
abspath(t) ==
    IF t = <<>> THEN Cwd
    ELSE IF t[1] = "/" THEN t
    ELSE Cwd \o <<"/">> \o t

\* The formats of each number of a list, each followed by a separator.
RECURSIVE FormatEach(_, _, _)
FormatEach(values, formats, sep) ==
    IF values = <<>> THEN <<>>
    ELSE (CASE Head(formats) = "i" -> Format3i(Head(values))
            [] Head(formats) = "e" -> Format20_10e(Head(values))
            [] OTHER -> FormatG(Head(values)))
         \o sep \o FormatEach(Tail(values), Tail(formats), sep)

\* format % tuple(values) raises TypeError unless there is a number for
\* each conversion.
Formattable(values, formats) ==
    /\ Len(values) = Len(formats)
    /\ \A i \in 1..Len(values) : IsNumber(values[i])

---------------------------------------------------------------------------
(* GeoclawInputData.                                                       *)

\* The attribute names of GeoclawInputData and the names its write() gives
\* the counts it writes, as texts.
GeoclawName ==
    [gravity |-> <<"g", "r", "a", "v", "i", "t", "y">>,
     earth_radius |-> <<"e", "a", "r", "t", "h", "_", "r", "a", "d", "i",
         "u", "s">>,
     coordinate_system |-> <<"c", "o", "o", "r", "d", "i", "n", "a", "t",
         "e", "_", "s", "y", "s", "t", "e", "m">>,
     coriolis_forcing |-> <<"c", "o", "r", "i", "o", "l", "i", "s", "_",
         "f", "o", "r", "c", "i", "n", "g">>,
     theta_0 |-> <<"t", "h", "e", "t", "a", "_", "0">>,
     friction_forcing |-> <<"f", "r", "i", "c", "t", "i", "o", "n", "_",
         "f", "o", "r", "c", "i", "n", "g">>,
     manning_coefficient |-> <<"m", "a", "n", "n", "i", "n", "g", "_", "c",
         "o", "e", "f", "f", "i", "c", "i", "e", "n", "t">>,
     friction_depth |-> <<"f", "r", "i", "c", "t", "i", "o", "n", "_", "d",
         "e", "p", "t", "h">>,
     sea_level |-> <<"s", "e", "a", "_", "l", "e", "v", "e", "l">>,
     variable_dt_refinement_ratios |-> <<"v", "a", "r", "i", "a", "b", "l",
         "e", "_", "d", "t", "_", "r", "e", "f", "i", "n", "e", "m", "e",
         "n", "t", "_", "r", "a", "t", "i", "o", "s">>,
     dry_tolerance |-> <<"d", "r", "y", "_", "t", "o", "l", "e", "r", "a",
         "n", "c", "e">>,
     wave_tolerance |-> <<"w", "a", "v", "e", "_", "t", "o", "l", "e", "r",
         "a", "n", "c", "e">>,
     speed_tolerance |-> <<"s", "p", "e", "e", "d", "_", "t", "o", "l",
         "e", "r", "a", "n", "c", "e">>,
     deep_depth |-> <<"d", "e", "e", "p", "_", "d", "e", "p", "t", "h">>,
     max_level_deep |-> <<"m", "a", "x", "_", "l", "e", "v", "e", "l", "_",
         "d", "e", "e", "p">>,
     test_topography |-> <<"t", "e", "s", "t", "_", "t", "o", "p", "o",
         "g", "r", "a", "p", "h", "y">>,
     topofiles |-> <<"t", "o", "p", "o", "f", "i", "l", "e", "s">>,
     topo_location |-> <<"t", "o", "p", "o", "_", "l", "o", "c", "a", "t",
         "i", "o", "n">>,
     topo_left |-> <<"t", "o", "p", "o", "_", "l", "e", "f", "t">>,
     topo_right |-> <<"t", "o", "p", "o", "_", "r", "i", "g", "h", "t">>,
     topo_angle |-> <<"t", "o", "p", "o", "_", "a", "n", "g", "l", "e">>,
     x0 |-> <<"x", "0">>,
     x1 |-> <<"x", "1">>,
     x2 |-> <<"x", "2">>,
     basin_depth |-> <<"b", "a", "s", "i", "n", "_", "d", "e", "p", "t",
         "h">>,
     shelf_depth |-> <<"s", "h", "e", "l", "f", "_", "d", "e", "p", "t",
         "h">>,
     beach_slope |-> <<"b", "e", "a", "c", "h", "_", "s", "l", "o", "p",
         "e">>,
     dtopofiles |-> <<"d", "t", "o", "p", "o", "f", "i", "l", "e", "s">>,
     fixedgrids |-> <<"f", "i", "x", "e", "d", "g", "r", "i", "d", "s">>,
     ntopofiles |-> <<"n", "t", "o", "p", "o", "f", "i", "l", "e", "s">>,
     mdtopofiles |-> <<"m", "d", "t", "o", "p", "o", "f", "i", "l", "e",
         "s">>,
     nfixedgrids |-> <<"n", "f", "i", "x", "e", "d", "g", "r", "i", "d",
         "s">>]

\* The descriptions GeoclawInputData.write passes to data_write.
GeoclawDescription ==
    [test_topography |-> <<"(", "T", "y", "p", "e", " ", "t", "o", "p",
         "o", "g", "r", "a", "p", "h", "y", " ", "s", "p", "e", "c", "i",
         "f", "i", "c", "a", "t", "i", "o", "n", ")">>,
     topo_location |-> <<"(", "B", "a", "t", "h", "y", "m", "e", "t", "r",
         "y", " ", "j", "u", "m", "p", " ", "l", "o", "c", "a", "t", "i",
         "o", "n", ")">>,
     topo_left |-> <<"(", "D", "e", "p", "t", "h", " ", "t", "o", " ", "l",
         "e", "f", "t", " ", "o", "f", " ", "b", "a", "t", "h", "y", "_",
         "l", "o", "c", "a", "t", "i", "o", "n", ")">>,
     topo_right |-> <<"(", "D", "e", "p", "t", "h", " ", "t", "o", " ",
         "r", "i", "g", "h", "t", " ", "o", "f", " ", "b", "a", "t", "h",
         "y", "_", "l", "o", "c", "a", "t", "i", "o", "n", ")">>,
     x0 |-> <<"(", "L", "o", "c", "a", "t", "i", "o", "n", " ", "o", "f",
         " ", "b", "a", "s", "i", "n", " ", "e", "n", "d", ")">>,
     x1 |-> <<"(", "L", "o", "c", "a", "t", "i", "o", "n", " ", "o", "f",
         " ", "s", "h", "e", "l", "f", " ", "s", "l", "o", "p", "e", " ",
         "e", "n", "d", ")">>,
     x2 |-> <<"(", "L", "o", "c", "a", "t", "i", "o", "n", " ", "o", "f",
         " ", "b", "e", "a", "c", "h", " ", "s", "l", "o", "p", "e", ")">>,
     basin_depth |-> <<"(", "D", "e", "p", "t", "h", " ", "o", "f", " ",
         "b", "a", "s", "i", "n", ")">>,
     shelf_depth |-> <<"(", "D", "e", "p", "t", "h", " ", "o", "f", " ",
         "s", "h", "e", "l", "f", ")">>,
     beach_slope |-> <<"(", "S", "l", "o", "p", "e", " ", "o", "f", " ",
         "b", "e", "a", "c", "h", ")">>]

Default(name, value) == [name |-> name, value |-> value]

\* The attributes GeoclawInputData.__init__ adds, in order, with their values.
GeoclawDefaults ==
    <<Default(GeoclawName.gravity, FloatV(98, 1)),
      Default(GeoclawName.earth_radius, FloatV(63675, -2)),
      Default(GeoclawName.coordinate_system, IntV(1)),
      Default(GeoclawName.coriolis_forcing, BoolV(TRUE)),
      Default(GeoclawName.theta_0, FloatV(45, 0)),
      Default(GeoclawName.friction_forcing, BoolV(TRUE)),
      Default(GeoclawName.manning_coefficient, FloatV(25, 3)),
      Default(GeoclawName.friction_depth, FloatV(1, -6)),
      Default(GeoclawName.sea_level, FloatV(0, 0)),
      Default(GeoclawName.variable_dt_refinement_ratios, BoolV(FALSE)),
      Default(GeoclawName.dry_tolerance, FloatV(1, 3)),
      Default(GeoclawName.wave_tolerance, FloatV(1, 1)),
      Default(GeoclawName.speed_tolerance,
              ListV([i \in 1..6 |-> FloatV(1, -12)])),
      Default(GeoclawName.deep_depth, FloatV(1, -2)),
      Default(GeoclawName.max_level_deep, IntV(3)),
      Default(GeoclawName.test_topography, IntV(0)),
      Default(GeoclawName.topofiles, ListV(<<>>)),
      Default(GeoclawName.topo_location, FloatV(-5, -4)),
      Default(GeoclawName.topo_left, FloatV(-4, -3)),
      Default(GeoclawName.topo_right, FloatV(-2, -2)),
      Default(GeoclawName.topo_angle, FloatV(0, 0)),
      Default(GeoclawName.x0, FloatV(35, -4)),
      Default(GeoclawName.x1, FloatV(45, -4)),
      Default(GeoclawName.x2, FloatV(48, -4)),
      Default(GeoclawName.basin_depth, FloatV(-3, -3)),
      Default(GeoclawName.shelf_depth, FloatV(-1, -2)),
      Default(GeoclawName.beach_slope, FloatV(8, 3)),
      Default(GeoclawName.dtopofiles, ListV(<<>>)),
      Default(GeoclawName.fixedgrids, ListV(<<>>))>>

\* add_attribute(name, value) for each of a list of defaults, in order.  (The
\* first half of the list, then the second half on the record the first left;
\* the test of rec has the record computed before the list is gone through.)
RECURSIVE add_defaults(_, _)
add_defaults(rec, defaults) ==
    IF rec.attributes # rec.attributes \/ defaults = <<>> THEN rec
    ELSE IF Len(defaults) = 1
    THEN add_attribute(rec, defaults[1].name, defaults[1].value, TRUE)
    ELSE add_defaults(add_defaults(rec, SubSeq(defaults, 1, Len(defaults) \div 2)),
                      SubSeq(defaults, Len(defaults) \div 2 + 1, Len(defaults)))

\* GeoclawInputData.__init__
GeoclawInputData_init == add_defaults(Constructed(<<>>), GeoclawDefaults)

\* x[-1] and x[:-1] of a list value
Last(v) == v.l[Len(v.l)]
Front(v) == SubSeq(v.l, 1, Len(v.l) - 1)
Quoted(t) == <<"'">> \o t \o <<"'">>

\* The body of the loop over topofiles, for one entry (a list): the file name
\* is the last element; a failing abspath ends in raise ("file not found"),
\* itself a TypeError; the name is written, then the five numbers.
TopoFileCalls(tfile) ==
    IF tfile.l = <<>> \/ Last(tfile).k # "str" THEN <<RaiseCall(TypeError)>>
    ELSE IF ~Formattable(Front(tfile), <<"i", "i", "i", "e", "e">>)
    THEN <<RawCall(<< <<>>, Quoted(abspath(Last(tfile).s)) \o <<" ">>, <<" ">> >>),
           RaiseCall(TypeError)>>
    ELSE <<RawCall(<< <<>>, Quoted(abspath(Last(tfile).s)) \o <<" ">>,
                      <<" ">> \o FormatEach(Front(tfile), <<"i", "i", "i", "e", "e">>,
                                           <<" ">>) >>)>>

\* The body of the loop over dtopofiles, for one entry (a list).
DtopoFileCalls(tfile) ==
    IF tfile.l = <<>> \/ Last(tfile).k # "str" THEN <<RaiseCall(IOError)>>
    ELSE IF ~Formattable(Front(tfile), <<"i", "i", "i">>)
    THEN <<RawCall(<< <<>>, Quoted(abspath(Last(tfile).s)) \o <<" ">> >>),
           RaiseCall(TypeError)>>
    ELSE <<RawCall(<< <<>>, Quoted(abspath(Last(tfile).s)) \o <<" ">>,
                      rstrip(FormatEach(Front(tfile), <<"i", "i", "i">>, <<" ">>)) >>)>>

\* The body of the loop over fixedgrids, for one entry (a list).
FixedGridCalls(fixedgrid) ==
    IF ~Formattable(fixedgrid.l, Repeat("g", 11)) THEN <<RaiseCall(TypeError)>>
    ELSE <<RawCall(<<FormatEach(fixedgrid.l, Repeat("g", 11), <<" ", " ">>)>>)>>

\* The calls of a loop's bodies, one entry after the other.
RECURSIVE TopoFilesCalls(_)
TopoFilesCalls(entries) ==
    IF entries = <<>> THEN <<>>
    ELSE TopoFileCalls(Head(entries)) \o TopoFilesCalls(Tail(entries))
RECURSIVE DtopoFilesCalls(_)
DtopoFilesCalls(entries) ==
    IF entries = <<>> THEN <<>>
    ELSE DtopoFileCalls(Head(entries)) \o DtopoFilesCalls(Tail(entries))
RECURSIVE FixedGridsCalls(_)
FixedGridsCalls(entries) ==
    IF entries = <<>> THEN <<>>
    ELSE FixedGridCalls(Head(entries)) \o FixedGridsCalls(Tail(entries))

\* data_write(name), data_write(name, description) and
\* data_write(value=len(list), alt_name=alt_name)
Field(name) == WriteCall(StrV(name), NoneV, NoneV, <<>>)
Described(name, description) == WriteCall(StrV(name), NoneV, NoneV, description)
Count(list, alt_name) == WriteCall(NoneV, IntV(Len(list.l)), StrV(alt_name), <<>>)
Blank == WriteCall(NoneV, NoneV, NoneV, <<>>)

\* GeoclawInputData.write, for a record whose topofiles, dtopofiles and
\* fixedgrids are lists of lists: geoclaw.data, refinement.data (not closed),
\* topo.data, dtopo.data and fixed_grids.data.
GeoclawInputData_write(rec) ==
    LET N == GeoclawName
        D == GeoclawDescription
        get(name) == DictGet(rec.dict, name)
    IN  <<OpenCall("geoclaw.data"), Field(N.gravity), Field(N.earth_radius),
          Field(N.coordinate_system), Field(N.sea_level), Blank,
          Field(N.coriolis_forcing)>>
        \o (IF NumEq(get(N.coordinate_system), 1) /\ Truthy(get(N.coriolis_forcing))
            THEN <<Field(N.theta_0)>> ELSE <<>>)
        \o <<Field(N.friction_forcing)>>
        \o (IF Truthy(get(N.friction_forcing))
            THEN <<Field(N.manning_coefficient), Field(N.friction_depth)>>
            ELSE <<>>)
        \o <<Blank, Field(N.dry_tolerance), Field(N.variable_dt_refinement_ratios),
             CloseCall,
             OpenCall("refinement.data"), Field(N.wave_tolerance)>>
        \o (IF get(N.speed_tolerance).k # "list"
            THEN <<SetCall(N.speed_tolerance, ListV(<<get(N.speed_tolerance)>>))>>
            ELSE <<>>)
        \o <<Field(N.speed_tolerance), Field(N.deep_depth), Field(N.max_level_deep),
             Blank,
             OpenCall("topo.data"), Described(N.test_topography, D.test_topography)>>
        \o (IF NumEq(get(N.test_topography), 0)
            THEN <<Count(get(N.topofiles), N.ntopofiles)>>
                 \o TopoFilesCalls(get(N.topofiles).l)
            ELSE IF NumEq(get(N.test_topography), 1)
            THEN <<Described(N.topo_location, D.topo_location),
                   Described(N.topo_left, D.topo_left),
                   Described(N.topo_right, D.topo_right)>>
            ELSE IF NumEq(get(N.test_topography), 2) \/ NumEq(get(N.test_topography), 3)
            THEN <<Described(N.x0, D.x0), Described(N.x1, D.x1),
                   Described(N.x2, D.x2),
                   Described(N.basin_depth, D.basin_depth),
                   Described(N.shelf_depth, D.shelf_depth),
                   Described(N.beach_slope, D.beach_slope)>>
            ELSE <<RaiseCall(NotImplementedError)>>)
        \o <<CloseCall,
             OpenCall("dtopo.data"), Count(get(N.dtopofiles), N.mdtopofiles), Blank>>
        \o DtopoFilesCalls(get(N.dtopofiles).l)
        \o <<CloseCall,
             OpenCall("fixed_grids.data"), Count(get(N.fixedgrids), N.nfixedgrids),
             Blank>>
        \o FixedGridsCalls(get(N.fixedgrids).l)
        \o <<CloseCall>>

\* A write() method run on the record: the calls it makes, up to the first
\* exception.
RunWrite(calls) ==
    \E done \in {RunCalls(Running(Self, _out_file, files, leaked), calls, SetrunPy)} :
        /\ _attributes' = done.rec.attributes
        /\ dict' = done.rec.dict
        /\ _out_file' = done.handle
        /\ files' = done.files
        /\ leaked' = done.leaked
        /\ call' = CallIO("write", "None", TRUE)
        /\ err' = done.err
        /\ UNCHANGED <<original, ret, items>>
        /\ CodecUnchanged
        /\ TreeUnchanged

GeoclawWrite == RunWrite(GeoclawInputData_write(Self))

\* Values setrun.py gives the attributes that decide what write() does.
TopoFile == ListV(<<IntV(2), IntV(1), IntV(3), FloatV(0, 0), FloatV(1, -10),
                    StrV(<<"/", "t">>)>>)
DtopoFile == ListV(<<IntV(1), IntV(3), IntV(3), StrV(<<"d">>)>>)
NoFileName == ListV(<<IntV(5)>>)
FixedGrid == ListV(<<FloatV(0, 0), FloatV(36, 2), FloatV(5, 1), FloatV(-1, 0),
                     FloatV(1, -6), IntV(10), IntV(20), IntV(0), IntV(1), IntV(-3),
                     FloatV(25, 7)>>)
GeoclawSettings ==
    {Default(GeoclawName.test_topography, IntV(i)) : i \in 0..4}
    \cup {Default(GeoclawName.coordinate_system, IntV(i)) : i \in 1..2}
    \cup {Default(GeoclawName.coriolis_forcing, BoolV(b)) : b \in BOOLEAN}
    \cup {Default(GeoclawName.friction_forcing, BoolV(b)) : b \in BOOLEAN}
    \cup {Default(GeoclawName.speed_tolerance, v) :
            v \in {FloatV(1, -12), ListV([i \in 1..6 |-> FloatV(1, -12)])}}
    \cup {Default(GeoclawName.topofiles, ListV(l)) :
            l \in {<<>>, <<TopoFile>>, <<NoFileName>>}}
    \cup {Default(GeoclawName.dtopofiles, ListV(l)) :
            l \in {<<>>, <<DtopoFile>>, <<NoFileName>>}}
    \cup {Default(GeoclawName.fixedgrids, ListV(l)) : l \in {<<>>, <<FixedGrid>>}}

\* The attributes that hold another value than GeoclawInputData.__init__ gave.
Changed(d) ==
    {i \in 1..Len(GeoclawDefaults) :
        d[GeoclawDefaults[i].name] # GeoclawDefaults[i].value}

InitGeoclaw ==
    /\ _attributes = GeoclawInputData_init.attributes
    /\ dict = GeoclawInputData_init.dict
    /\ InitIO
    /\ InitCodecIdle
    /\ InitObject("GeoclawInputData")
    /\ call = NoCall
    /\ err = OK
    /\ ret = NoneV
    /\ items = <<>>

NextGeoclaw ==
    \/ \E setting \in GeoclawSettings :
          /\ SetAttr(setting.name, setting.value)
          /\ Cardinality(Changed(dict')) <= MaxChanged
    \/ GeoclawWrite
    \/ CloseDataFile

SpecGeoclaw == InitGeoclaw /\ [][NextGeoclaw]_vars

---------------------------------------------------------------------------
(* GaugeData.                                                              *)

GaugeName ==
    [gauges |-> <<"g", "a", "u", "g", "e", "s">>,
     ngauges |-> <<"n", "g", "a", "u", "g", "e", "s">>]

\* '%<width>.<precision>e' % v, for a number of at most precision + 1 digits
FormatE(v, width, precision) ==
    LET c == Canonical(v.n, v.e)
        digits == Digits(Abs(c.m))
        exp == IF c.m = 0 THEN 0 ELSE Len(digits) - c.d - 1
    IN  rjust((IF c.m < 0 THEN <<"-">> ELSE <<>>)
              \o <<digits[1], ".">> \o Tail(digits)
              \o Repeat("0", precision + 1 - Len(digits))
              \o <<"e">> \o ExponentText(exp), width)

\* "%4i %19.10e  %17.10e  %13.6e  %13.6e" % tuple(gauge)
GaugeLine(gauge) ==
    rjust(repr_int(IntPart(gauge.l[1])), 4) \o <<" ">>
    \o FormatE(gauge.l[2], 19, 10) \o <<" ", " ">>
    \o FormatE(gauge.l[3], 17, 10) \o <<" ", " ">>
    \o FormatE(gauge.l[4], 13, 6) \o <<" ", " ">>
    \o FormatE(gauge.l[5], 13, 6)

\* GaugeData.__init__
GaugeData_init == add_attribute(Constructed(<<>>), GaugeName.gauges, ListV(<<>>), TRUE)

\* What set() and == tell numbers apart by: the value, whatever the type.
NumKey(v) == IF IsNumber(v) THEN Canonical(v.n, v.e) ELSE [m |-> 0, d |-> 0]

\* The gauge_numbers property: gauge[0] of every gauge.
gauge_numbers(rec) ==
    [i \in 1..Len(DictGet(rec.dict, GaugeName.gauges).l) |->
        DictGet(rec.dict, GaugeName.gauges).l[i].l[1]]

\* len(self.gauge_numbers) != len(set(self.gauge_numbers))
NonUnique(numbers) ==
    Len(numbers) # Cardinality({NumKey(numbers[i]) : i \in 1..Len(numbers)})

\* The lines of the loop over the gauges, or the TypeError of a gauge that
\* is not five numbers.
RECURSIVE GaugeCalls(_)
GaugeCalls(gauges) ==
    IF gauges = <<>> THEN <<>>
    ELSE IF ~Formattable(Head(gauges).l, <<"i", "e", "e", "e", "e">>)
    THEN <<RaiseCall(TypeError)>>
    ELSE <<RawCall(<<GaugeLine(Head(gauges))>>)>> \o GaugeCalls(Tail(gauges))

\* GaugeData.write with the test of the gauge numbers left out.
GaugeData_write_unchecked(rec, out_file) ==
    <<OpenCall(out_file),
      WriteCall(StrV(GaugeName.ngauges),
                IntV(Len(DictGet(rec.dict, GaugeName.gauges).l)), NoneV, <<>>)>>
    \o GaugeCalls(DictGet(rec.dict, GaugeName.gauges).l)
    \o <<CloseCall>>

\* GaugeData.write, for a record whose gauges is a list of lists: the test
\* of the gauge numbers, then the file.
GaugeData_write(rec, out_file) ==
    IF Len(DictGet(rec.dict, GaugeName.gauges).l) > 0 /\ NonUnique(gauge_numbers(rec))
    THEN <<RaiseCall(Exception)>>
    ELSE <<OpenCall(out_file),
           WriteCall(StrV(GaugeName.ngauges),
                     IntV(Len(DictGet(rec.dict, GaugeName.gauges).l)), NoneV, <<>>)>>
         \o GaugeCalls(DictGet(rec.dict, GaugeName.gauges).l)
         \o <<CloseCall>>

GaugeWrite == RunWrite(GaugeData_write(Self, "gauges.data"))

\* Gauges setrun.py may list: number, x, y, t1, t2.  Two of them share the
\* number 3, as an integer and as a float.
Gauges ==
    {ListV(<<IntV(1), FloatV(5, 1), FloatV(25, 2), FloatV(0, 0), FloatV(1, -9)>>),
     ListV(<<IntV(3), FloatV(-1, 0), FloatV(2, 0), FloatV(0, 0), FloatV(1, -9)>>),
     ListV(<<FloatV(3, 0), FloatV(75, 2), FloatV(0, 0), FloatV(15, 1), FloatV(1, -1)>>)}

InitGauges ==
    /\ _attributes = GaugeData_init.attributes
    /\ dict = GaugeData_init.dict
    /\ InitIO
    /\ InitCodecIdle
    /\ InitObject("GaugeData")
    /\ call = NoCall
    /\ err = OK
    /\ ret = NoneV
    /\ items = <<>>

NextGauges ==
    \/ \E gauges \in SeqsUpTo(Gauges, MaxGauges) :
          SetAttr(GaugeName.gauges, ListV(gauges))
    \/ GaugeWrite

SpecGauges == InitGauges /\ [][NextGauges]_vars

---------------------------------------------------------------------------
(* ClawInputData and AmrclawInputData.                                     *)

\* The attribute names of ClawInputData and AmrclawInputData and the names
\* their write() gives the values it computes, as texts.
ClawName ==
    [num_dim |-> <<"n", "u", "m", "_", "d", "i", "m">>,
     num_eqn |-> <<"n", "u", "m", "_", "e", "q", "n">>,
     num_waves |-> <<"n", "u", "m", "_", "w", "a", "v", "e", "s">>,
     num_aux |-> <<"n", "u", "m", "_", "a", "u", "x">>,
     output_style |-> <<"o", "u", "t", "p", "u", "t", "_", "s", "t", "y",
         "l", "e">>,
     output_times |-> <<"o", "u", "t", "p", "u", "t", "_", "t", "i", "m",
         "e", "s">>,
     num_output_times |-> <<"n", "u", "m", "_", "o", "u", "t", "p", "u",
         "t", "_", "t", "i", "m", "e", "s">>,
     output_t0 |-> <<"o", "u", "t", "p", "u", "t", "_", "t", "0">>,
     output_step_interval |-> <<"o", "u", "t", "p", "u", "t", "_", "s",
         "t", "e", "p", "_", "i", "n", "t", "e", "r", "v", "a", "l">>,
     total_steps |-> <<"t", "o", "t", "a", "l", "_", "s", "t", "e", "p",
         "s">>,
     tfinal |-> <<"t", "f", "i", "n", "a", "l">>,
     output_format |-> <<"o", "u", "t", "p", "u", "t", "_", "f", "o", "r",
         "m", "a", "t">>,
     output_q_components |-> <<"o", "u", "t", "p", "u", "t", "_", "q", "_",
         "c", "o", "m", "p", "o", "n", "e", "n", "t", "s">>,
     output_aux_components |-> <<"o", "u", "t", "p", "u", "t", "_", "a",
         "u", "x", "_", "c", "o", "m", "p", "o", "n", "e", "n", "t", "s">>,
     output_aux_onlyonce |-> <<"o", "u", "t", "p", "u", "t", "_", "a", "u",
         "x", "_", "o", "n", "l", "y", "o", "n", "c", "e">>,
     dt_initial |-> <<"d", "t", "_", "i", "n", "i", "t", "i", "a", "l">>,
     dt_max |-> <<"d", "t", "_", "m", "a", "x">>,
     dt_variable |-> <<"d", "t", "_", "v", "a", "r", "i", "a", "b", "l",
         "e">>,
     cfl_desired |-> <<"c", "f", "l", "_", "d", "e", "s", "i", "r", "e",
         "d">>,
     cfl_max |-> <<"c", "f", "l", "_", "m", "a", "x">>,
     steps_max |-> <<"s", "t", "e", "p", "s", "_", "m", "a", "x">>,
     order |-> <<"o", "r", "d", "e", "r">>,
     transverse_waves |-> <<"t", "r", "a", "n", "s", "v", "e", "r", "s",
         "e", "_", "w", "a", "v", "e", "s">>,
     dimensional_split |-> <<"d", "i", "m", "e", "n", "s", "i", "o", "n",
         "a", "l", "_", "s", "p", "l", "i", "t">>,
     verbosity |-> <<"v", "e", "r", "b", "o", "s", "i", "t", "y">>,
     verbosity_regrid |-> <<"v", "e", "r", "b", "o", "s", "i", "t", "y",
         "_", "r", "e", "g", "r", "i", "d">>,
     source_split |-> <<"s", "o", "u", "r", "c", "e", "_", "s", "p", "l",
         "i", "t">>,
     capa_index |-> <<"c", "a", "p", "a", "_", "i", "n", "d", "e", "x">>,
     limiter |-> <<"l", "i", "m", "i", "t", "e", "r">>,
     t0 |-> <<"t", "0">>,
     num_ghost |-> <<"n", "u", "m", "_", "g", "h", "o", "s", "t">>,
     use_fwaves |-> <<"u", "s", "e", "_", "f", "w", "a", "v", "e", "s">>,
     restart |-> <<"r", "e", "s", "t", "a", "r", "t">>,
     restart_file |-> <<"r", "e", "s", "t", "a", "r", "t", "_", "f", "i",
         "l", "e">>,
     lower |-> <<"l", "o", "w", "e", "r">>,
     upper |-> <<"u", "p", "p", "e", "r">>,
     num_cells |-> <<"n", "u", "m", "_", "c", "e", "l", "l", "s">>,
     bc_lower |-> <<"b", "c", "_", "l", "o", "w", "e", "r">>,
     bc_upper |-> <<"b", "c", "_", "u", "p", "p", "e", "r">>,
     iout_q |-> <<"i", "o", "u", "t", "_", "q">>,
     iout_aux |-> <<"i", "o", "u", "t", "_", "a", "u", "x">>,
     aux_type |-> <<"a", "u", "x", "_", "t", "y", "p", "e">>,
     checkpt_style |-> <<"c", "h", "e", "c", "k", "p", "t", "_", "s", "t",
         "y", "l", "e">>,
     checkpt_times |-> <<"c", "h", "e", "c", "k", "p", "t", "_", "t", "i",
         "m", "e", "s">>,
     checkpt_interval |-> <<"c", "h", "e", "c", "k", "p", "t", "_", "i",
         "n", "t", "e", "r", "v", "a", "l">>,
     num_checkpt_times |-> <<"n", "u", "m", "_", "c", "h", "e", "c", "k",
         "p", "t", "_", "t", "i", "m", "e", "s">>,
     amr_levels_max |-> <<"a", "m", "r", "_", "l", "e", "v", "e", "l", "s",
         "_", "m", "a", "x">>,
     refinement_ratios_x |-> <<"r", "e", "f", "i", "n", "e", "m", "e", "n",
         "t", "_", "r", "a", "t", "i", "o", "s", "_", "x">>,
     refinement_ratios_y |-> <<"r", "e", "f", "i", "n", "e", "m", "e", "n",
         "t", "_", "r", "a", "t", "i", "o", "s", "_", "y">>,
     refinement_ratios_z |-> <<"r", "e", "f", "i", "n", "e", "m", "e", "n",
         "t", "_", "r", "a", "t", "i", "o", "s", "_", "z">>,
     variable_dt_refinement_ratios |-> <<"v", "a", "r", "i", "a", "b", "l",
         "e", "_", "d", "t", "_", "r", "e", "f", "i", "n", "e", "m", "e",
         "n", "t", "_", "r", "a", "t", "i", "o", "s">>,
     refinement_ratios_t |-> <<"r", "e", "f", "i", "n", "e", "m", "e", "n",
         "t", "_", "r", "a", "t", "i", "o", "s", "_", "t">>,
     checkpt_time_interval |-> <<"c", "h", "e", "c", "k", "p", "t", "_",
         "t", "i", "m", "e", "_", "i", "n", "t", "e", "r", "v", "a", "l">>,
     flag_richardson |-> <<"f", "l", "a", "g", "_", "r", "i", "c", "h",
         "a", "r", "d", "s", "o", "n">>,
     flag_richardson_tol |-> <<"f", "l", "a", "g", "_", "r", "i", "c", "h",
         "a", "r", "d", "s", "o", "n", "_", "t", "o", "l">>,
     flag2refine |-> <<"f", "l", "a", "g", "2", "r", "e", "f", "i", "n",
         "e">>,
     flag2refine_tol |-> <<"f", "l", "a", "g", "2", "r", "e", "f", "i",
         "n", "e", "_", "t", "o", "l">>,
     regrid_interval |-> <<"r", "e", "g", "r", "i", "d", "_", "i", "n",
         "t", "e", "r", "v", "a", "l">>,
     regrid_buffer_width |-> <<"r", "e", "g", "r", "i", "d", "_", "b", "u",
         "f", "f", "e", "r", "_", "w", "i", "d", "t", "h">>,
     clustering_cutoff |-> <<"c", "l", "u", "s", "t", "e", "r", "i", "n",
         "g", "_", "c", "u", "t", "o", "f", "f">>,
     dprint |-> <<"d", "p", "r", "i", "n", "t">>,
     eprint |-> <<"e", "p", "r", "i", "n", "t">>,
     edebug |-> <<"e", "d", "e", "b", "u", "g">>,
     gprint |-> <<"g", "p", "r", "i", "n", "t">>,
     nprint |-> <<"n", "p", "r", "i", "n", "t">>,
     pprint |-> <<"p", "p", "r", "i", "n", "t">>,
     rprint |-> <<"r", "p", "r", "i", "n", "t">>,
     sprint |-> <<"s", "p", "r", "i", "n", "t">>,
     tprint |-> <<"t", "p", "r", "i", "n", "t">>,
     uprint |-> <<"u", "p", "r", "i", "n", "t">>]

\* The words write() accepts in place of the integer codes.
ClawWord ==
    [all |-> <<"a", "l", "l">>,
     none |-> <<"n", "o", "n", "e">>,
     ascii |-> <<"a", "s", "c", "i", "i">>,
     netcdf |-> <<"n", "e", "t", "c", "d", "f">>,
     binary |-> <<"b", "i", "n", "a", "r", "y">>,
     increment |-> <<"i", "n", "c", "r", "e", "m", "e", "n", "t">>,
     unsplit |-> <<"u", "n", "s", "p", "l", "i", "t">>,
     godunov |-> <<"g", "o", "d", "u", "n", "o", "v">>,
     strang |-> <<"s", "t", "r", "a", "n", "g">>,
     minmod |-> <<"m", "i", "n", "m", "o", "d">>,
     superbee |-> <<"s", "u", "p", "e", "r", "b", "e", "e">>,
     mc |-> <<"m", "c">>,
     vanleer |-> <<"v", "a", "n", "l", "e", "e", "r">>,
     user |-> <<"u", "s", "e", "r">>,
     extrap |-> <<"e", "x", "t", "r", "a", "p">>,
     periodic |-> <<"p", "e", "r", "i", "o", "d", "i", "c">>,
     wall |-> <<"w", "a", "l", "l">>]


NameError == "NameError"

\* The built-in type file, which write() passes as the name at lines 530
\* and 558.
FileType == [k |-> "type", n |-> 0, e |-> 0, s |-> <<"f", "i", "l", "e">>, l |-> <<>>]

\* n * [value]
Times(n, value) == ListV([i \in 1..n |-> value])

\* The attributes ClawInputData.__init__ adds whatever num_dim is, in order,
\* with their values.
ClawDefaults(num_dim) ==
    LET N == ClawName
    IN  <<Default(N.num_dim, IntV(num_dim)),
          Default(N.num_eqn, IntV(1)),
          Default(N.num_waves, IntV(1)),
          Default(N.num_aux, IntV(0)),
          Default(N.output_style, IntV(1)),
          Default(N.output_times, ListV(<<>>)),
          Default(N.num_output_times, NoneV),
          Default(N.output_t0, BoolV(TRUE)),
          Default(N.output_step_interval, NoneV),
          Default(N.total_steps, NoneV),
          Default(N.tfinal, NoneV),
          Default(N.output_format, IntV(1)),
          Default(N.output_q_components, StrV(ClawWord.all)),
          Default(N.output_aux_components, ListV(<<>>)),
          Default(N.output_aux_onlyonce, BoolV(TRUE)),
          Default(N.dt_initial, FloatV(1, 5)),
          Default(N.dt_max, FloatV(1, -99)),
          Default(N.dt_variable, IntV(1)),
          Default(N.cfl_desired, FloatV(9, 1)),
          Default(N.cfl_max, FloatV(1, 0)),
          Default(N.steps_max, IntV(50000)),
          Default(N.order, IntV(2)),
          Default(N.transverse_waves, IntV(2)),
          Default(N.dimensional_split, IntV(0)),
          Default(N.verbosity, IntV(0)),
          Default(N.verbosity_regrid, IntV(0)),
          Default(N.source_split, IntV(0)),
          Default(N.capa_index, IntV(0)),
          Default(N.limiter, ListV(<<IntV(4)>>)),
          Default(N.t0, FloatV(0, 0)),
          Default(N.num_ghost, IntV(2)),
          Default(N.use_fwaves, BoolV(FALSE)),
          Default(N.restart, BoolV(FALSE)),
          Default(N.restart_file, StrV(<<>>))>>

\* Those it adds for num_dim 1, 2 or 3.
ClawGridDefaults(num_dim) ==
    LET N == ClawName
    IN  <<Default(N.lower, Times(num_dim, FloatV(0, 0))),
          Default(N.upper, Times(num_dim, FloatV(1, 0))),
          Default(N.num_cells, Times(num_dim, IntV(100))),
          Default(N.bc_lower, Times(num_dim, IntV(0))),
          Default(N.bc_upper, Times(num_dim, IntV(0)))>>

\* ClawInputData.__init__(num_dim): the record, or the ValueError of a
\* num_dim that is not 1, 2 or 3.
ClawInputData_init(num_dim) ==
    LET common == add_defaults(Constructed(<<>>), ClawDefaults(num_dim))
    IN  IF num_dim \in 1..3
        THEN [rec |-> add_defaults(common, ClawGridDefaults(num_dim)), err |-> OK]
        ELSE [rec |-> common, err |-> ValueError]

\* The attributes AmrclawInputData.__init__ adds after those of
\* ClawInputData, in order: those before the test of num_dim == 1, and
\* those after it.
AmrclawRatioDefaults(num_dim) ==
    LET N == ClawName
    IN  <<Default(N.amr_levels_max, IntV(1)),
          Default(N.refinement_ratios_x, ListV(<<IntV(1)>>)),
          Default(N.refinement_ratios_y, ListV(<<IntV(1)>>))>>
        \o (IF num_dim = 3
            THEN <<Default(N.refinement_ratios_z, ListV(<<IntV(1)>>))>>
            ELSE <<>>)
AmrclawDefaults ==
    LET N == ClawName
    IN  <<Default(N.variable_dt_refinement_ratios, BoolV(FALSE)),
          Default(N.refinement_ratios_t, ListV(<<IntV(1)>>)),
          Default(N.aux_type, ListV(<<>>)),
          Default(N.checkpt_style, IntV(1)),
          Default(N.checkpt_interval, IntV(1000)),
          Default(N.checkpt_time_interval, FloatV(1000, 0)),
          Default(N.checkpt_times, ListV(<<FloatV(1000, 0)>>)),
          Default(N.flag_richardson, BoolV(FALSE)),
          Default(N.flag_richardson_tol, FloatV(1, 0)),
          Default(N.flag2refine, BoolV(TRUE)),
          Default(N.flag2refine_tol, FloatV(5, 2)),
          Default(N.regrid_interval, IntV(2)),
          Default(N.regrid_buffer_width, IntV(3)),
          Default(N.clustering_cutoff, FloatV(7, 1)),
          Default(N.dprint, BoolV(FALSE)),
          Default(N.eprint, BoolV(FALSE)),
          Default(N.edebug, BoolV(FALSE)),
          Default(N.gprint, BoolV(FALSE)),
          Default(N.nprint, BoolV(FALSE)),
          Default(N.pprint, BoolV(FALSE)),
          Default(N.rprint, BoolV(FALSE)),
          Default(N.sprint, BoolV(FALSE)),
          Default(N.tprint, BoolV(FALSE)),
          Default(N.uprint, BoolV(FALSE))>>

\* AmrclawInputData.__init__(num_dim): the record; the error of
\* ClawInputData.__init__; or, for num_dim == 1, the TypeError of calling
\* NotImplemented, which is not callable (line 631).
AmrclawInputData_init(num_dim) ==
    LET base == ClawInputData_init(num_dim)
        ratios == add_defaults(base.rec, AmrclawRatioDefaults(num_dim))
    IN  IF base.err # OK THEN base
        ELSE IF num_dim = 1 THEN [rec |-> ratios, err |-> TypeError]
        ELSE [rec |-> add_defaults(ratios, AmrclawDefaults), err |-> OK]

\* The code table read one place too far: a value gets the code after its
\* own.
Select_next(value, first, words) ==
    LET hits == {i \in 1..Len(words) :
                    NumEq(value, first + i - 1) \/ value = StrV(words[i])}
    IN  IF hits = {} THEN -1
        ELSE first + CHOOSE i \in hits : \A j \in hits : i <= j

\* The code of a value among first, first + 1, ...: the number itself or
\* the word that stands for it (value in [code, word]); -1 if it has none.
Select(value, first, words) ==
    LET hits == {i \in 1..Len(words) :
                    NumEq(value, first + i - 1) \/ value = StrV(words[i])}
    IN  IF hits = {} THEN -1
        ELSE first - 1 + CHOOSE i \in hits : \A j \in hits : i <= j

\* if self.name in [first, word]: self.name = first ... else: raise e
Normalize(rec, name, first, words, e) ==
    IF Select(DictGet(rec.dict, name), first, words) = -1 THEN <<RaiseCall(e)>>
    ELSE <<SetCall(name, IntV(Select(DictGet(rec.dict, name), first, words)))>>

\* for i in range(count): self.name[i] = its code, in the list itself, up
\* to the first entry that has no code (AttributeError) or that the list
\* lacks (IndexError).
NormalizeList(rec, name, count, words) ==
    LET list == DictGet(rec.dict, name).l
        bad == {i \in 1..count : i > Len(list) \/ Select(list[i], 0, words) = -1}
        stop == IF bad = {} THEN count + 1
                ELSE CHOOSE i \in bad : \A j \in bad : i <= j
        coded == [i \in 1..Len(list) |->
                    IF i < stop THEN IntV(Select(list[i], 0, words)) ELSE list[i]]
    IN  <<SetCall(name, ListV(coded))>>
        \o (IF bad = {} THEN <<>>
            ELSE IF stop > Len(list) THEN <<RaiseCall(IndexError)>>
            ELSE <<RaiseCall(AttributeError)>>)

\* value > 0, for a number
Positive(value) == IsNumber(value) /\ value.n > 0

\* np.where(value, 1, 0) of a list, as the list data_write makes of it
Where(value) == ListV([i \in 1..Len(value.l) |-> IntV(IF Truthy(value.l[i]) THEN 1 ELSE 0)])

\* iout_q and iout_aux (lines 488-493 and 499-504), for a count that is an
\* integer and components that are 'all', 'none' or a list.
Components(components, count) ==
    IF components = StrV(ClawWord.all) THEN Times(count.n, IntV(1))
    ELSE IF components = StrV(ClawWord.none) THEN Times(count.n, IntV(0))
    ELSE Where(components)

\* ClawInputData.write with the assignment of line 463 left out: the count
\* written is the one the attribute held.
OutputStyleCalls_stale(rec) ==
    LET N == ClawName
        output_style == DictGet(rec.dict, N.output_style)
        output_times == DictGet(rec.dict, N.output_times)
    IN  <<Field(N.output_style)>>
        \o (IF NumEq(output_style, 1)
            THEN <<Field(N.num_output_times), Field(N.tfinal), Field(N.output_t0)>>
            ELSE IF NumEq(output_style, 2)
            THEN IF Len(output_times.l) = 0 THEN <<RaiseCall(AttributeError)>>
                 ELSE <<Field(N.num_output_times), Field(N.output_times)>>
            ELSE IF NumEq(output_style, 3)
            THEN <<Field(N.output_step_interval), Field(N.total_steps),
                   Field(N.output_t0)>>
            ELSE <<RaiseCall(AttributeError)>>)

\* Lines 453-472: output_style and the attributes it asks for, for
\* output_times a list.
OutputStyleCalls(rec) ==
    LET N == ClawName
        output_style == DictGet(rec.dict, N.output_style)
        output_times == DictGet(rec.dict, N.output_times)
    IN  <<Field(N.output_style)>>
        \o (IF NumEq(output_style, 1)
            THEN <<Field(N.num_output_times), Field(N.tfinal), Field(N.output_t0)>>
            ELSE IF NumEq(output_style, 2)
            THEN IF Len(output_times.l) = 0 THEN <<RaiseCall(AttributeError)>>
                 ELSE <<SetCall(N.num_output_times, IntV(Len(output_times.l))),
                        Field(N.num_output_times), Field(N.output_times)>>
            ELSE IF NumEq(output_style, 3)
            THEN <<Field(N.output_step_interval), Field(N.total_steps),
                   Field(N.output_t0)>>
            ELSE <<RaiseCall(AttributeError)>>)

\* Lines 476-506: output_format, iout_q and iout_aux.  The raise of line
\* 483 names clawdata, which is no name there: a NameError.
OutputFormatCalls(rec) ==
    LET N == ClawName
        W == ClawWord
        get(name) == DictGet(rec.dict, name)
    IN  Normalize(rec, N.output_format, 1, <<W.ascii, W.netcdf, W.binary>>, NameError)
        \o <<Field(N.output_format),
             WriteCall(StrV(<<>>), Components(get(N.output_q_components), get(N.num_eqn)),
                       StrV(N.iout_q), <<>>)>>
        \o (IF Positive(get(N.num_aux))
            THEN <<WriteCall(StrV(<<>>),
                             Components(get(N.output_aux_components), get(N.num_aux)),
                             StrV(N.iout_aux), <<>>),
                   Field(N.output_aux_onlyonce)>>
            ELSE <<>>)

\* Lines 508-560: the time stepping and the method.  self.aux_type is read
\* where only AmrclawInputData declares it.
MethodCalls(rec) ==
    LET N == ClawName
        W == ClawWord
        get(name) == DictGet(rec.dict, name)
        code(name, words) == IntV(Select(get(name), 0, words))
    IN  <<Blank, Field(N.dt_initial), Field(N.dt_max), Field(N.cfl_max),
          Field(N.cfl_desired), Field(N.steps_max), Blank, Field(N.dt_variable),
          Field(N.order)>>
        \o (IF NumEq(get(N.num_dim), 1) THEN <<>>
            ELSE Normalize(rec, N.transverse_waves, 0, <<W.none, W.increment, W.all>>,
                           AttributeError)
                 \o <<WriteCall(FileType,
                                code(N.transverse_waves, <<W.none, W.increment, W.all>>),
                                StrV(N.transverse_waves), <<>>)>>
                 \o Normalize(rec, N.dimensional_split, 0,
                              <<W.unsplit, W.godunov, W.strang>>, AttributeError)
                 \o <<Field(N.dimensional_split)>>)
        \o <<Field(N.verbosity)>>
        \o Normalize(rec, N.source_split, 0, <<W.none, W.godunov, W.strang>>,
                     AttributeError)
        \o <<Field(N.source_split), Field(N.capa_index)>>
        \o (IF ~Positive(get(N.num_aux)) THEN <<>>
            ELSE IF get(N.aux_type) = Absent THEN <<RaiseCall(AttributeError)>>
            ELSE IF get(N.aux_type) = NoneV THEN <<RaiseCall(TypeError)>>
            ELSE <<WriteCall(FileType, get(N.aux_type), StrV(N.aux_type), <<>>)>>)
        \o <<Field(N.use_fwaves), Blank>>

\* ClawInputData.write with the loop of lines 576-583 left out: bc_lower is
\* written as setrun.py gave it.
BoundaryCalls_asgiven(rec) ==
    LET N == ClawName
        W == ClawWord
        num_dim == DictGet(rec.dict, N.num_dim).n
        kinds == <<W.user, W.extrap, W.periodic, W.wall>>
    IN  NormalizeList(rec, N.limiter, Len(DictGet(rec.dict, N.limiter).l),
                      <<W.none, W.minmod, W.superbee, W.mc, W.vanleer>>)
        \o <<Field(N.limiter), Blank, Field(N.num_ghost)>>
        \o <<Field(N.bc_lower)>>
        \o NormalizeList(rec, N.bc_upper, num_dim, kinds)
        \o <<Field(N.bc_upper)>>

\* Lines 562-594: the limiters and the boundary conditions, for limiter,
\* bc_lower and bc_upper lists and num_dim an integer.
BoundaryCalls(rec) ==
    LET N == ClawName
        W == ClawWord
        num_dim == DictGet(rec.dict, N.num_dim).n
        kinds == <<W.user, W.extrap, W.periodic, W.wall>>
    IN  NormalizeList(rec, N.limiter, Len(DictGet(rec.dict, N.limiter).l),
                      <<W.none, W.minmod, W.superbee, W.mc, W.vanleer>>)
        \o <<Field(N.limiter), Blank, Field(N.num_ghost)>>
        \o NormalizeList(rec, N.bc_lower, num_dim, kinds)
        \o <<Field(N.bc_lower)>>
        \o NormalizeList(rec, N.bc_upper, num_dim, kinds)
        \o <<Field(N.bc_upper)>>

\* Lines 596-610: restart and checkpoints.  ClawInputData declares none of
\* checkpt_style, checkpt_times and checkpt_interval.
CheckpointCalls(rec) ==
    LET N == ClawName
        checkpt_style == DictGet(rec.dict, N.checkpt_style)
    IN  <<Blank, Field(N.restart), Field(N.restart_file), Field(N.checkpt_style)>>
        \o (IF NumEq(checkpt_style, 2)
            THEN <<WriteCall(StrV(<<>>),
                             IntV(Len(DictGet(rec.dict, N.checkpt_times).l)),
                             StrV(N.num_checkpt_times), <<>>),
                   Field(N.checkpt_times)>>
            ELSE IF NumEq(checkpt_style, 3) THEN <<Field(N.checkpt_interval)>>
            ELSE IF ~(NumEq(checkpt_style, 0) \/ NumEq(checkpt_style, 1))
            THEN <<RaiseCall(AttributeError)>>
            ELSE <<>>)
        \o <<Blank>>

\* ClawInputData.write: the file is left open.
ClawInputData_write(rec, out_file) ==
    LET N == ClawName
    IN  <<OpenCall(out_file), Field(N.num_dim), Field(N.lower), Field(N.upper),
          Field(N.num_cells), Blank, Field(N.num_eqn), Field(N.num_waves),
          Field(N.num_aux), Blank, Field(N.t0), Blank>>
        \o OutputStyleCalls(rec)
        \o <<Blank>>
        \o OutputFormatCalls(rec)
        \o MethodCalls(rec)
        \o BoundaryCalls(rec)
        \o CheckpointCalls(rec)

\* AmrclawInputData.write with the lengths tested against amr_levels_max - 1
\* as it stands, without abs and max.
RatioCalls_levels(rec) ==
    LET N == ClawName
        amr_levels_max == DictGet(rec.dict, N.amr_levels_max).n
        num_ratios == amr_levels_max - 1
        check(name) == IF Len(DictGet(rec.dict, name).l) < num_ratios
                       THEN <<RaiseCall(ValueError)>> ELSE <<>>
    IN  check(N.refinement_ratios_x) \o check(N.refinement_ratios_y)
        \o <<Field(N.refinement_ratios_x), Field(N.refinement_ratios_y)>>
        \o (IF NumEq(DictGet(rec.dict, N.num_dim), 3)
            THEN check(N.refinement_ratios_z) \o <<Field(N.refinement_ratios_z)>>
            ELSE <<>>)
        \o check(N.refinement_ratios_t)
        \o <<Field(N.refinement_ratios_t)>>

\* Lines 670-687: the lengths of the lists of ratios, for amr_levels_max an
\* integer and the ratios lists.
RatioCalls(rec) ==
    LET N == ClawName
        amr_levels_max == DictGet(rec.dict, N.amr_levels_max).n
        num_ratios == IF Abs(amr_levels_max) - 1 > 1 THEN Abs(amr_levels_max) - 1 ELSE 1
        check(name) == IF Len(DictGet(rec.dict, name).l) < num_ratios
                       THEN <<RaiseCall(ValueError)>> ELSE <<>>
    IN  check(N.refinement_ratios_x) \o check(N.refinement_ratios_y)
        \o <<Field(N.refinement_ratios_x), Field(N.refinement_ratios_y)>>
        \o (IF NumEq(DictGet(rec.dict, N.num_dim), 3)
            THEN check(N.refinement_ratios_z) \o <<Field(N.refinement_ratios_z)>>
            ELSE <<>>)
        \o check(N.refinement_ratios_t)
        \o <<Field(N.refinement_ratios_t)>>

\* AmrclawInputData.write: ClawInputData.write, then the refinement.  The
\* file is left open.
AmrclawInputData_write(rec, out_file) ==
    LET N == ClawName
    IN  ClawInputData_write(rec, out_file)
        \o <<Field(N.amr_levels_max)>>
        \o RatioCalls(rec)
        \o <<Blank, Field(N.flag_richardson), Field(N.flag_richardson_tol),
             Field(N.flag2refine), Field(N.flag2refine_tol), Field(N.regrid_interval),
             Field(N.regrid_buffer_width), Field(N.clustering_cutoff),
             Field(N.verbosity_regrid), Blank, Blank,
             Field(N.dprint), Field(N.eprint), Field(N.edebug), Field(N.gprint),
             Field(N.nprint), Field(N.pprint), Field(N.rprint), Field(N.sprint),
             Field(N.tprint), Field(N.uprint), Blank>>

\* The constructor of a class of run-control record.
ClawClasses == {"ClawInputData", "AmrclawInputData"}
ClawConstructor(c, num_dim) ==
    IF c = "AmrclawInputData" THEN AmrclawInputData_init(num_dim)
    ELSE ClawInputData_init(num_dim)

\* write() of the record, by its class.
ClawWrite ==
    RunWrite(IF class = "AmrclawInputData"
             THEN AmrclawInputData_write(Self, "amrclaw.data")
             ELSE ClawInputData_write(Self, "claw.data"))

\* Values setrun.py gives the attributes that decide what write() does: the
\* boundary conditions of each dimension (the first num_dim of each sample),
\* and the other attributes.
BoundarySamples ==
    LET W == ClawWord
        bad == StrV(<<"b", "a", "d">>)
    IN  [valid |-> {<<StrV(W.wall), StrV(W.user), StrV(W.periodic)>>,
                    <<StrV(W.extrap), IntV(3), StrV(W.wall)>>},
         invalid |-> {<<StrV(W.periodic), bad, StrV(W.wall)>>,
                      <<IntV(4), StrV(W.extrap), StrV(W.user)>>},
         upper |-> {<<IntV(2), StrV(W.wall), StrV(W.extrap)>>,
                    <<bad, StrV(W.user), IntV(4)>>}]
Ratios == ListV(<<IntV(2), IntV(2)>>)
ClawSettings(num_dim) ==
    LET N == ClawName
        W == ClawWord
        B == BoundarySamples
    IN  {Default(N.output_style, IntV(i)) : i \in 1..4}
        \cup {Default(N.output_times, ListV(l)) :
                l \in {<<>>, <<FloatV(1, 0), FloatV(2, 0), FloatV(3, 0)>>}}
        \cup {Default(N.num_output_times, v) : v \in {NoneV, IntV(7)}}
        \cup {Default(N.bc_lower, ListV(SubSeq(l, 1, num_dim))) :
                l \in B.valid \cup B.invalid}
        \cup {Default(N.bc_upper, ListV(SubSeq(l, 1, num_dim))) : l \in B.upper}
        \cup {Default(N.output_format, StrV(W.binary)),
              Default(N.transverse_waves, StrV(W.increment)),
              Default(N.dimensional_split, StrV(W.godunov)),
              Default(N.source_split, StrV(W.strang)),
              Default(N.limiter, ListV(<<StrV(W.minmod), StrV(W.superbee),
                                         StrV(W.mc), StrV(W.vanleer),
                                         StrV(W.none)>>))}
        \cup {Default(N.amr_levels_max, IntV(i)) : i \in {1, 3, -3}}
        \cup {Default(N.refinement_ratios_x, Ratios),
              Default(N.refinement_ratios_y, Ratios),
              Default(N.refinement_ratios_z, Ratios),
              Default(N.refinement_ratios_t, Ratios),
              Default(N.refinement_ratios_t, ListV(<<>>))}

\* The sections of write() and the attributes each one reads.
ClawSections ==
    LET N == ClawName
    IN  <<{N.output_style, N.output_times, N.num_output_times},
          {N.output_format}, {N.transverse_waves}, {N.dimensional_split},
          {N.source_split}, {N.limiter},
          {N.bc_lower, N.bc_upper},
          {N.amr_levels_max, N.refinement_ratios_x, N.refinement_ratios_y,
           N.refinement_ratios_z, N.refinement_ratios_t}>>

\* The sections with an attribute that holds another value than the
\* constructor gave.
ChangedSections(d, defaults) ==
    {i \in 1..Len(ClawSections) :
        \E name \in ClawSections[i] : DictGet(d, name) # DictGet(defaults, name)}

\* A record of either class as constructed.  setrun.py sets its attributes,
\* then has it written.
InitClaw ==
    /\ \E c \in ClawClasses, num_dim \in 1..3 :
          /\ ClawConstructor(c, num_dim).err = OK
          /\ class = c
          /\ _attributes = ClawConstructor(c, num_dim).rec.attributes
          /\ dict = ClawConstructor(c, num_dim).rec.dict
    /\ objects = <<>>
    /\ writes = <<>>
    /\ InitIO
    /\ InitCodecIdle
    /\ call = NoCall
    /\ err = OK
    /\ ret = NoneV
    /\ items = <<>>

NextClaw ==
    \/ /\ DOMAIN files = {}
       /\ \E defaults \in {ClawConstructor(class, dict[ClawName.num_dim].n).rec.dict} :
             \E setting \in ClawSettings(dict[ClawName.num_dim].n) :
                /\ has_attribute(Self, setting.name)
                /\ SetAttr(setting.name, setting.value)
                /\ Cardinality(ChangedSections(dict', defaults)) <= MaxSections
    \/ /\ DOMAIN files = {}
       /\ class = "ClawInputData"
       /\ AddAttribute(ClawName.checkpt_style, IntV(1), TRUE)
    \/ ClawWrite

SpecClaw == InitClaw /\ [][NextClaw]_vars

---------------------------------------------------------------------------
(* RegionData, QinitData, UserData and ClawRunData.                        *)

\* The attribute names of these classes, as texts.
RunName ==
    [pkg |-> <<"p", "k", "g">>,
     num_dim |-> <<"n", "u", "m", "_", "d", "i", "m">>,
     data_list |-> <<"d", "a", "t", "a", "_", "l", "i", "s", "t">>,
     xclawcmd |-> <<"x", "c", "l", "a", "w", "c", "m", "d">>,
     clawdata |-> <<"c", "l", "a", "w", "d", "a", "t", "a">>,
     geodata |-> <<"g", "e", "o", "d", "a", "t", "a">>,
     regiondata |-> <<"r", "e", "g", "i", "o", "n", "d", "a", "t", "a">>,
     gaugedata |-> <<"g", "a", "u", "g", "e", "d", "a", "t", "a">>,
     qinitdata |-> <<"q", "i", "n", "i", "t", "d", "a", "t", "a">>,
     regions |-> <<"r", "e", "g", "i", "o", "n", "s">>,
     num_regions |-> <<"n", "u", "m", "_", "r", "e", "g", "i", "o", "n",
         "s">>,
     qinit_type |-> <<"q", "i", "n", "i", "t", "_", "t", "y", "p", "e">>,
     qinitfiles |-> <<"q", "i", "n", "i", "t", "f", "i", "l", "e", "s">>,
     probdata |-> <<"p", "r", "o", "b", "d", "a", "t", "a">>,
     userdata |-> <<"u", "s", "e", "r", "d", "a", "t", "a">>,
     fname |-> <<"_", "_", "f", "n", "a", "m", "e", "_", "_">>,
     descr |-> <<"_", "_", "d", "e", "s", "c", "r", "_", "_">>]

\* The names of the packages and of their executables, as texts.
RunWord ==
    [classic |-> <<"c", "l", "a", "s", "s", "i", "c">>,
     classicclaw |-> <<"c", "l", "a", "s", "s", "i", "c", "c", "l", "a",
         "w">>,
     amrclaw |-> <<"a", "m", "r", "c", "l", "a", "w">>,
     amr |-> <<"a", "m", "r">>,
     geoclaw |-> <<"g", "e", "o", "c", "l", "a", "w">>,
     xclaw |-> <<"x", "c", "l", "a", "w">>,
     xamr |-> <<"x", "a", "m", "r">>,
     xgeoclaw |-> <<"x", "g", "e", "o", "c", "l", "a", "w">>,
     pyclaw |-> <<"p", "y", "c", "l", "a", "w">>,
     Classic |-> <<"C", "l", "a", "s", "s", "i", "c">>]

\* str.lower
UpperCase == <<"A", "B", "C", "D", "E", "F", "G", "H", "I", "J", "K", "L", "M",
               "N", "O", "P", "Q", "R", "S", "T", "U", "V", "W", "X", "Y", "Z">>
LowerCase == <<"a", "b", "c", "d", "e", "f", "g", "h", "i", "j", "k", "l", "m",
               "n", "o", "p", "q", "r", "s", "t", "u", "v", "w", "x", "y", "z">>
lower(t) ==
    [i \in 1..Len(t) |->
        IF \E j \in 1..26 : UpperCase[j] = t[i]
        THEN LowerCase[CHOOSE j \in 1..26 : UpperCase[j] = t[i]]
        ELSE t[i]]

\* RegionData.__init__() (regions is None)
RegionData_init == add_attribute(Constructed(<<>>), RunName.regions, ListV(<<>>), TRUE)

\* The loop over the regions: eight numbers in '%g  ' each, or the TypeError
\* of a region that is not eight numbers.
RECURSIVE RegionCalls(_)
RegionCalls(regions) ==
    IF regions = <<>> THEN <<>>
    ELSE IF ~Formattable(Head(regions).l, Repeat("g", 8))
    THEN <<RaiseCall(TypeError)>>
    ELSE <<RawCall(<<FormatEach(Head(regions).l, Repeat("g", 8), <<" ", " ">>)>>)>>
         \o RegionCalls(Tail(regions))

\* RegionData.write, for a record whose regions is a list of lists.
RegionData_write(rec, out_file) ==
    <<OpenCall(out_file),
      Count(DictGet(rec.dict, RunName.regions), RunName.num_regions)>>
    \o RegionCalls(DictGet(rec.dict, RunName.regions).l)
    \o <<CloseCall>>

\* QinitData.__init__
QinitData_init ==
    add_defaults(Constructed(<<>>), <<Default(RunName.qinit_type, IntV(0)),
                                      Default(RunName.qinitfiles, ListV(<<>>))>>)

\* The loop over qinitfiles, for entries that are lists: the file name is the
\* last element; a failing abspath ends in raise MissingFile, a name that is
\* not defined; the name is written, then the two numbers.
RECURSIVE QinitFilesCalls(_)
QinitFilesCalls(entries) ==
    IF entries = <<>> THEN <<>>
    ELSE LET tfile == Head(entries)
         IN  IF tfile.l = <<>> \/ Last(tfile).k # "str" THEN <<RaiseCall(NameError)>>
             ELSE IF ~Formattable(Front(tfile), <<"i", "i">>)
             THEN <<RawCall(<< <<>>, Quoted(abspath(Last(tfile).s)) \o <<" ", " ">> >>),
                    RaiseCall(TypeError)>>
             ELSE <<RawCall(<< <<>>, Quoted(abspath(Last(tfile).s)) \o <<" ", " ">>,
                               FormatEach(Front(tfile), <<"i", "i">>, <<" ">>) >>)>>
                  \o QinitFilesCalls(Tail(entries))

\* QinitData.write
QinitData_write(rec) ==
    <<OpenCall("qinit.data"), Field(RunName.qinit_type), Blank>>
    \o QinitFilesCalls(DictGet(rec.dict, RunName.qinitfiles).l)
    \o <<CloseCall>>

\* A file name as a value (the model's paths are whole names), and a
\* dictionary of descriptions as the list of its (name, description) pairs.
PathV(path) == [k |-> "str", n |-> 0, e |-> 0, s |-> <<path>>, l |-> <<>>]
DescrV(pairs) == [k |-> "dict", n |-> 0, e |-> 0, s |-> <<>>, l |-> pairs]

\* UserData.__init__(fname): __fname__ and __descr__ are set without being
\* declared.
UserData_init(fname) ==
    add_attribute(add_attribute(Constructed(<<>>), RunName.fname, PathV(fname), FALSE),
                  RunName.descr, DescrV(<<>>), FALSE)

\* UserData.add_param(name, value, descr): add_attribute, then
\* descr_dict[name] = descr.
add_param(rec, name, value, descr) ==
    LET added == add_attribute(rec, name, value, TRUE)
        pairs == DictGet(rec.dict, RunName.descr).l
        entry == ListV(<<StrV(name), StrV(descr)>>)
    IN  Rec(added.attributes,
            DictSet(added.dict, RunName.descr,
                    DescrV(IF \E i \in 1..Len(pairs) : pairs[i].l[1] = StrV(name)
                           THEN [i \in 1..Len(pairs) |->
                                   IF pairs[i].l[1] = StrV(name) THEN entry
                                   ELSE pairs[i]]
                           ELSE Append(pairs, entry))))

\* UserData.write: ClawData.write(self.__fname__, data_source), that is
\* open_data_file and data_write(name) for each declared name, without a close.
UserData_write(rec) ==
    <<OpenCall(DictGet(rec.dict, RunName.fname).s[1])>>
    \o [i \in 1..Len(rec.attributes) |-> Field(rec.attributes[i])]

\* A data object: its class, its attributes and its _out_file.  A ClawRunData
\* holds its objects by reference: ObjV(i) is the i-th object made.
Object(c, rec) ==
    [class |-> c, attributes |-> rec.attributes, dict |-> rec.dict,
     _out_file |-> "None"]
ObjV(i) == [k |-> "object", n |-> i, e |-> 0, s |-> <<>>, l |-> <<>>]

\* A ClawRunData with the objects made so far, or the exception that ended
\* its construction.
Run(rec, objs) == [rec |-> rec, objects |-> objs, err |-> OK]

\* add_data(data, name): add_attribute(name, data), then
\* self.data_list.append(data).
add_data(run, data, name) ==
    LET ref == ObjV(Len(run.objects) + 1)
        added == add_attribute(run.rec, name, ref, TRUE)
    IN  [rec |-> Rec(added.attributes,
                     DictSet(added.dict, RunName.data_list,
                             ListV(Append(DictGet(added.dict, RunName.data_list).l,
                                          ref)))),
         objects |-> Append(run.objects, data),
         err |-> OK]

\* add_data(constructor(...), name): the exception of the constructor, if it
\* raises one, ends __init__.
add_new(run, c, made, name) ==
    IF run.err # OK THEN run
    ELSE IF made.err # OK THEN [run EXCEPT !.err = made.err]
    ELSE add_data(run, Object(c, made.rec), name)
Made(rec) == [rec |-> rec, err |-> OK]

\* new_UserData(name, fname)
new_UserData(run, name, fname) ==
    add_data(run, Object("UserData", UserData_init(fname)), name)

\* ClawRunData.__init__(pkg, num_dim)
ClawRunData_init(pkg, num_dim) ==
    LET N == RunName
        W == RunWord
        base == add_defaults(Constructed(<<>>),
                             <<Default(N.pkg, StrV(pkg)), Default(N.num_dim, IntV(num_dim)),
                               Default(N.data_list, ListV(<<>>)),
                               Default(N.xclawcmd, NoneV)>>)
        named(cmd) == Run(setattr(base, N.xclawcmd, StrV(cmd)).rec, <<>>)
        clawdata(run) ==
            add_new(run, "AmrclawInputData", AmrclawInputData_init(num_dim), N.clawdata)
        regiondata(run) == add_new(run, "RegionData", Made(RegionData_init), N.regiondata)
        gaugedata(run) == add_new(run, "GaugeData", Made(GaugeData_init), N.gaugedata)
    IN  IF lower(pkg) \in {W.classic, W.classicclaw}
        THEN add_new(named(W.xclaw), "ClawInputData", ClawInputData_init(num_dim),
                     N.clawdata)
        ELSE IF lower(pkg) \in {W.amrclaw, W.amr}
        THEN gaugedata(regiondata(clawdata(named(W.xamr))))
        ELSE IF lower(pkg) \in {W.geoclaw}
        THEN add_new(gaugedata(regiondata(
                         add_new(clawdata(named(W.xgeoclaw)), "GeoclawInputData",
                                 Made(GeoclawInputData_init), N.geodata))),
                     "QinitData", Made(QinitData_init), N.qinitdata)
        ELSE [rec |-> base, objects |-> <<>>, err |-> AttributeError]

\* data_object.write(): the write() of the object's class, with its default
\* arguments.
ObjectWrite(o) ==
    LET rec == Rec(o.attributes, o.dict)
    IN  CASE o.class = "ClawInputData" -> ClawInputData_write(rec, "claw.data")
          [] o.class = "AmrclawInputData" -> AmrclawInputData_write(rec, "amrclaw.data")
          [] o.class = "GeoclawInputData" -> GeoclawInputData_write(rec)
          [] o.class = "RegionData" -> RegionData_write(rec, "regions.data")
          [] o.class = "GaugeData" -> GaugeData_write(rec, "gauges.data")
          [] o.class = "QinitData" -> QinitData_write(rec)
          [] OTHER -> UserData_write(rec)

\* The state of a ClawRunData.write under way: the objects, the files, the
\* objects whose write() was called, and the exception of the last.
Writing(objs, fs, lk) ==
    [objects |-> objs, files |-> fs, leaked |-> lk, writes |-> <<>>, err |-> OK]

\* One turn of the loop with the next turn left out of it: the object's
\* write() is called, and the loop goes on whatever it raised.
WriteObject_on(st, i) ==
    CHOOSE next \in
        {[objects |-> [st.objects EXCEPT ![i] =
                          [class |-> @.class, attributes |-> done.rec.attributes,
                           dict |-> done.rec.dict, _out_file |-> done.handle]],
          files |-> done.files,
          leaked |-> done.leaked,
          writes |-> Append(st.writes, i),
          err |-> OK] :
            done \in {RunCalls(Running(Rec(st.objects[i].attributes,
                                           st.objects[i].dict),
                                       st.objects[i]._out_file, st.files, st.leaked),
                               ObjectWrite(st.objects[i]), SetrunPy)}} : TRUE

\* One turn of the loop of ClawRunData.write: data_object.write() on the
\* object and the files as the turns before left them.
WriteObject(st, i) ==
    CHOOSE next \in
        {[objects |-> [st.objects EXCEPT ![i] =
                          [class |-> @.class, attributes |-> done.rec.attributes,
                           dict |-> done.rec.dict, _out_file |-> done.handle]],
          files |-> done.files,
          leaked |-> done.leaked,
          writes |-> Append(st.writes, i),
          err |-> done.err] :
            done \in {RunCalls(Running(Rec(st.objects[i].attributes,
                                           st.objects[i].dict),
                                       st.objects[i]._out_file, st.files, st.leaked),
                               ObjectWrite(st.objects[i]), SetrunPy)}} : TRUE

\* ClawRunData.write: for data_object in self.data_list: data_object.write().
\* An exception of a write() ends the loop.
RECURSIVE ClawRunData_write(_, _)
ClawRunData_write(st, data_list) ==
    IF st.err # OK \/ data_list = <<>> THEN st
    ELSE ClawRunData_write(WriteObject(st, Head(data_list).n), Tail(data_list))

\* write() of the ClawRunData: the loop over its data_list.
RunDataWrite ==
    \E done \in {ClawRunData_write(Writing(objects, files, leaked),
                                   DictGet(dict, RunName.data_list).l)} :
        /\ objects' = done.objects
        /\ files' = done.files
        /\ leaked' = done.leaked
        /\ writes' = done.writes
        /\ call' = CallIO("write", "None", TRUE)
        /\ err' = done.err
        /\ UNCHANGED <<_attributes, dict, _out_file, original, ret, items, class>>
        /\ CodecUnchanged

\* rundata.new_UserData(name, fname)
NewUserData(name, fname) ==
    \E run \in {new_UserData(Run(Self, objects), name, fname)} :
        /\ _attributes' = run.rec.attributes
        /\ dict' = run.rec.dict
        /\ objects' = run.objects
        /\ call' = Call("new_UserData", name, PathV(fname), TRUE, <<>>)
        /\ err' = OK
        /\ ret' = ObjV(Len(run.objects))
        /\ items' = <<>>
        /\ UNCHANGED <<_out_file, files, leaked, original, class, writes>>
        /\ CodecUnchanged

\* A call on the i-th data object that leaves it as the record new, with the
\* exception e.
ObjectCall(i, new, e, op, name, value) ==
    /\ objects' = [objects EXCEPT ![i] = [class |-> @.class,
                                          attributes |-> new.attributes,
                                          dict |-> new.dict,
                                          _out_file |-> @._out_file]]
    /\ call' = Call(op, name, value, TRUE, <<>>)
    /\ err' = e
    /\ ret' = NoneV
    /\ items' = <<>>
    /\ UNCHANGED <<_attributes, dict, _out_file, files, leaked, original, class,
                   writes>>
    /\ CodecUnchanged

\* data.name = value, data.add_attribute(name, value) and
\* data.add_param(name, value, descr) on the i-th data object.
ObjectSetAttr(i, name, value) ==
    \E new \in {setattr(Rec(objects[i].attributes, objects[i].dict), name, value)} :
        ObjectCall(i, new.rec, new.err, "setattr", name, value)
ObjectAddAttribute(i, name, value) ==
    ObjectCall(i, add_attribute(Rec(objects[i].attributes, objects[i].dict), name,
                                value, TRUE),
               OK, "add_attribute", name, value)
AddParam(i, name, value, descr) ==
    ObjectCall(i, add_param(Rec(objects[i].attributes, objects[i].dict), name, value,
                            descr),
               OK, "add_param", name, value)

\* The packages and dimensions setrun.py may ask for; the constructor raises
\* for some of them.
RunPackages == {RunWord.classic, RunWord.Classic, RunWord.amrclaw, RunWord.geoclaw,
                RunWord.pyclaw}
RunDims == 0..4

\* What setrun.py does with the data objects: an explicit list of output
\* times without times, two gauges of the same number, the attribute
\* ClawInputData.write reads and ClawInputData.__init__ does not declare,
\* and the objects it has made by new_UserData with the parameters it gives
\* them.
SharedGauges ==
    CHOOSE gauges \in [1..2 -> Gauges] :
        gauges[1] # gauges[2] /\ NonUnique(<<gauges[1].l[1], gauges[2].l[1]>>)
RunSettings ==
    {[class |-> c, name |-> ClawName.output_style, value |-> IntV(2)] :
        c \in ClawClasses}
    \cup {[class |-> "GaugeData", name |-> GaugeName.gauges,
           value |-> ListV(SharedGauges)]}
UserFiles ==
    {[name |-> RunName.probdata, fname |-> "setprob.data"],
     [name |-> RunName.userdata, fname |-> "user.data"]}

\* A ClawRunData as constructed, for the packages and dimensions whose
\* constructor raises nothing.
InitRun ==
    /\ \E pkg \in RunPackages, num_dim \in RunDims :
          \E run \in {ClawRunData_init(pkg, num_dim)} :
             /\ run.err = OK
             /\ _attributes = run.rec.attributes
             /\ dict = run.rec.dict
             /\ objects = run.objects
    /\ class = "ClawRunData"
    /\ writes = <<>>
    /\ InitIO
    /\ InitCodecIdle
    /\ call = NoCall
    /\ err = OK
    /\ ret = NoneV
    /\ items = <<>>

\* setrun.py makes and changes the data objects, then has them written.
NextRun ==
    \/ /\ writes = <<>>
       /\ Cardinality({i \in 1..Len(objects) : objects[i].class = "UserData"})
             < MaxUserData
       /\ \E user \in UserFiles : NewUserData(user.name, user.fname)
    \/ /\ writes = <<>>
       /\ \E i \in 1..Len(objects), setting \in RunSettings :
             /\ objects[i].class = setting.class
             /\ ObjectSetAttr(i, setting.name, setting.value)
    \/ /\ writes = <<>>
       /\ \E i \in 1..Len(objects) :
             /\ objects[i].class = "ClawInputData"
             /\ ObjectAddAttribute(i, ClawName.checkpt_style, IntV(1))
    \/ /\ writes = <<>>
       /\ \E i \in 1..Len(objects) :
             /\ objects[i].class = "UserData"
             /\ AddParam(i, NameA, IntV(1), <<"d">>)
    \/ RunDataWrite

SpecRun == InitRun /\ [][NextRun]_vars

---------------------------------------------------------------------------
(* The codec alone: a value is made into the line data_write writes for it, *)
(* and the line's value text is parsed as read parses it.                  *)

\* Texts of at most n characters of an alphabet.
RECURSIVE Texts(_, _)
Texts(alphabet, n) ==
    IF n = 0 THEN {<<>>}
    ELSE LET shorter == Texts(alphabet, n - 1)
         IN  shorter \cup {Append(t, c) : t \in {u \in shorter : Len(u) = n - 1},
                                         c \in alphabet}

\* Powers of ten the codec's floats are scaled by: m * 10^-d.
FloatScales == {-20, -1, 0, 1, 2, 6}
TextAlphabet == {"a", "T", "F", "5", ".", " "}

CodecInts == {IntV(i) : i \in -MaxNumber..MaxNumber}
CodecFloats == {FloatV(m, d) : m \in {i \in -MaxNumber..MaxNumber : i % 10 # 0},
                               d \in FloatScales} \cup {FloatV(0, 0)}
CodecBools == {BoolV(TRUE), BoolV(FALSE)}
CodecStrings == {StrV(t) : t \in Texts(TextAlphabet, MaxText)}
CodecValues == CodecInts \cup CodecFloats \cup CodecBools \cup CodecStrings
\* Lists of numbers and booleans.
ListElements == {IntV(1), IntV(-2), FloatV(25, 1), BoolV(TRUE), BoolV(FALSE)}
CodecLists == {ListV(l) : l \in Texts(ListElements, MaxList)}

InitCodec ==
    /\ sample \in CodecValues \cup CodecLists
    /\ encoded = <<>>
    /\ decoded = NoneV
    /\ _attributes = <<>>
    /\ dict = [n \in Names |-> Absent]
    /\ InitIO
    /\ InitObject("ClawData")
    /\ call = Call("sample", <<>>, NoneV, TRUE, <<>>)
    /\ err = OK
    /\ ret = NoneV
    /\ items = <<>>

Encode ==
    /\ call.op = "sample"
    /\ encoded' = FieldLine(sample, NameA, <<>>)
    /\ call' = Call("data_write", NameA, sample, TRUE, <<>>)
    /\ UNCHANGED <<sample, decoded, _attributes, dict, _out_file, files, leaked,
                   original, err, ret, items>>
    /\ TreeUnchanged

Decode ==
    /\ call.op = "data_write"
    /\ decoded' = _parse_value(ValuePart(encoded))
    /\ call' = Call("_parse_value", NameA, sample, TRUE, <<>>)
    /\ UNCHANGED <<sample, encoded, _attributes, dict, _out_file, files, leaked,
                   original, err, ret, items>>
    /\ TreeUnchanged

\* read on a file that holds the encoded line: the body of its loop, once.
ReadLine(force) ==
    /\ call.op \in {"data_write", "_parse_value"}
    /\ \E got \in {read(Self, <<encoded>>, force)} :
          /\ _attributes' = got.rec.attributes
          /\ dict' = got.rec.dict
          /\ err' = got.err
    /\ call' = CallIO("read", "None", force)
    /\ UNCHANGED <<sample, encoded, decoded, _out_file, files, leaked, original,
                   ret, items>>
    /\ TreeUnchanged

NextCodec == Encode \/ Decode \/ \E force \in BOOLEAN : ReadLine(force)

SpecCodec == InitCodec /\ [][NextCodec]_vars

---------------------------------------------------------------------------
(* Claims about the restricted attribute set, checked under Spec.          *)

NoDuplicates(seq) == \A i, j \in 1..Len(seq) : i # j => seq[i] # seq[j]

\* C1: setting a name that is neither declared nor private raises
\* AttributeError (the spec's UnknownAttributeError) and changes neither the
\* declared list nor any value; add_attribute(name, v0) declares the name, a
\* set of a declared name succeeds and stores the value, and a read of a
\* stored value returns it.
C1_SetRequiresDeclaration ==
    [][ /\ (/\ call'.op = "setattr"
            /\ call'.name \notin Range(_attributes)
            /\ ~IsPrivate(call'.name))
           => (err' = AttributeError /\ _attributes' = _attributes /\ dict' = dict)
        /\ (call'.op = "add_attribute" /\ call'.flag)
           => call'.name \in Range(_attributes')
        /\ (call'.op = "setattr" /\ call'.name \in Range(_attributes))
           => (/\ err' = OK
               /\ _attributes' = _attributes
               /\ dict' = [dict EXCEPT ![call'.name] = call'.value])
        /\ (call'.op = "getattr" /\ dict[call'.name] # Absent)
           => (err' = OK /\ ret' = dict[call'.name])
      ]_vars

\* A set of an undeclared, non-private name has just failed on a record that
\* declares another name.
C1_Witness ==
    /\ call.op = "setattr"
    /\ err = AttributeError
    /\ ~IsPrivate(call.name)
    /\ call.name \notin Range(_attributes)
    /\ _attributes # <<>>

\* C2 as stated: every non-private name that holds a readable value is in the
\* declared list.
C2_ReadableImpliesDeclared ==
    \A n \in Names : (~IsPrivate(n) /\ dict[n] # Absent) => n \in Range(_attributes)

\* C2, amended: a record starts with every readable non-private name
\* declared, and every operation keeps it so except add_attribute with
\* add_to_list false, which stores a value without declaring the name.
C2_OnlyUntrackedDeclareEscapes ==
    /\ C2_ReadableImpliesDeclared
    /\ [][ (/\ C2_ReadableImpliesDeclared
            /\ ~(call'.op = "add_attribute" /\ ~call'.flag))
           => C2_ReadableImpliesDeclared' ]_vars

\* A name was removed, another non-private one is still declared with a
\* value, and every readable non-private name is declared.
C2_Witness ==
    /\ call.op = "remove_attributes"
    /\ err = OK
    /\ call.names # <<>>
    /\ C2_ReadableImpliesDeclared
    /\ \E n \in Range(_attributes) : ~IsPrivate(n) /\ dict[n] # Absent

\* C3: the declared list never holds a name twice, and add_attribute of a
\* name already declared leaves the list as it is and only sets the value.
C3_DeclareIdempotent ==
    /\ []NoDuplicates(_attributes)
    /\ [][ (call'.op = "add_attribute" /\ call'.name \in Range(_attributes))
           => (/\ _attributes' = _attributes
               /\ dict' = [dict EXCEPT ![call'.name] = call'.value]) ]_vars

\* The first of two declared names was just declared again with a new value.
C3_Witness ==
    /\ call.op = "add_attribute"
    /\ call.flag
    /\ Len(_attributes) = 2
    /\ _attributes[1] = call.name
    /\ dict[call.name] = call.value
    /\ call.value # NoneV

\* C4: iteritems returns, without error and without changing the record, one
\* (name, value) pair per declared name, in the order of the declared list,
\* and a second call right after the first returns the same list.
C4_ItemsAreTheDeclaredNames ==
    [][ call'.op = "iteritems"
        => (/\ err' = OK
            /\ Len(items') = Len(_attributes)
            /\ \A i \in 1..Len(items') :
                  items'[i] = <<_attributes[i], dict[_attributes[i]]>>
            /\ \A n \in Names :
                  Cardinality({i \in 1..Len(items') : items'[i][1] = n})
                      = IF n \in Range(_attributes) THEN 1 ELSE 0
            /\ _attributes' = _attributes
            /\ dict' = dict
            /\ (call.op = "iteritems" => items' = items)) ]_vars

\* iteritems returned two pairs, while the instance holds a value it must not
\* list.
C4_Witness ==
    /\ call.op = "iteritems"
    /\ err = OK
    /\ Len(items) = 2
    /\ \E n \in Names : dict[n] # Absent /\ n \notin Range(_attributes)

\* C5 as stated: remove_attributes of declared names takes each out of the
\* declared list and deletes its value, and with a listed name that is not
\* declared it raises the error a set of an undeclared name raises
\* (AttributeError).
C5_UndeclareUnknownRaisesAttributeError ==
    [][ call'.op = "remove_attributes"
        => IF \A i \in 1..Len(call'.names) : call'.names[i] \in Range(_attributes)
              /\ NoDuplicates(call'.names)
           THEN /\ err' = OK
                /\ \A i \in 1..Len(call'.names) :
                      /\ call'.names[i] \notin Range(_attributes')
                      /\ dict'[call'.names[i]] = Absent
           ELSE err' = AttributeError ]_vars

---------------------------------------------------------------------------
(* Claims about the output file, checked under SpecFiles (C7, C8),         *)
(* SpecGeoclaw (C6) and SpecRoundTrip (C9).                                *)

\* C6 as stated: when write() has returned, normally or with an exception,
\* every file it opened is closed: the record holds no handle and no file
\* object is left unclosed.
C6_WriteLeavesNothingOpen ==
    call.op = "write" => (_out_file = "None" /\ leaked = {})

\* C7 as stated: open_data_file on a record whose handle is open fails and
\* leaves the handle, the file and every other file object as they were.
C7_OpenOnOpenHandleFails ==
    [][ (call'.op = "open_data_file" /\ _out_file # "None")
        => (/\ err' # OK
            /\ _out_file' = _out_file
            /\ leaked' = leaked
            /\ files' = files) ]_vars

\* C8 as stated: with no open handle, data_write (a field or a blank line)
\* and close_data_file both raise the "No file currently open for output"
\* exception, write nothing and leave the record without a handle.
C8_NoOpenFileError ==
    [][ (_out_file = "None" /\ call'.op \in {"data_write", "close_data_file"})
        => (/\ err' = Exception
            /\ files' = files
            /\ _out_file' = "None") ]_vars

\* C9 as stated: after write(path) of a record, read(path, force=False) on a
\* record declaring the same names leaves every field that was written as
\* a = 5, b = [1, 2, 3] or c = True equal to the value written.
C9_ReadRestoresWrittenFields ==
    (/\ call.op = "read"
     /\ ~call.flag
     /\ err = OK
     /\ original.path = call.path
     /\ files[call.path] = original.content)
    => \A n \in Range(_attributes) \cap Range(original.attributes) :
          original.dict[n] = FieldValue(n) => dict[n] = original.dict[n]

---------------------------------------------------------------------------
(* Claims about the codec, checked under SpecCodec.                        *)

Scalars == {"int", "float", "bool", "str"}

\* C10 as stated: a scalar (integer, float, boolean or string) written by
\* data_write and parsed back is a value of the same type and content.
C10_ScalarRoundTrip ==
    (call.op = "_parse_value" /\ sample.k \in Scalars) => decoded = sample

\* C11 as stated: a list of numbers and booleans, of any length, written by
\* data_write as one line and read back with force=True is declared and is
\* the same list: same length, same elements in the same order.
C11_ListRoundTrip ==
    (call.op = "read" /\ call.flag /\ sample.k = "list")
    => (err = OK /\ has_attribute(Self, NameA) /\ dict[NameA] = sample)

---------------------------------------------------------------------------
(* Claims about read, checked under SpecRead.                              *)

\* The lines of a file that are field lines of a name, and the value the
\* last of them holds.
LinesOf(lines, name) ==
    {i \in 1..Len(lines) : /\ Separators(lines[i]) # {}
                           /\ split(TailPart(lines[i]))[1] = name}
LastValue(lines, name) ==
    _parse_value(ValuePart(lines[CHOOSE i \in LinesOf(lines, name) :
                                    \A j \in LinesOf(lines, name) : j <= i]))

---------------------------------------------------------------------------
(* Claims about GaugeData.write, checked under SpecGauges.                 *)

\* Two gauges of a list have the same number.
SharedNumber(gauges) ==
    \E i, j \in 1..Len(gauges) : i < j /\ NumKey(gauges[i].l[1]) = NumKey(gauges[j].l[1])

\* C13: GaugeData.write raises whenever two gauges of the list share a
\* number, with no file opened and nothing written; when the numbers are
\* pairwise distinct it succeeds and gauges.data holds, after the header, the
\* ngauges line with the number of gauges and one line per gauge in list
\* order.
C13_GaugeNumbersUnique ==
    [][ call'.op = "write"
        => LET gauges == dict[GaugeName.gauges].l
           IN  IF SharedNumber(gauges)
               THEN /\ err' = Exception
                    /\ files' = files
                    /\ _out_file' = _out_file
                    /\ leaked' = leaked
               ELSE /\ err' = OK
                    /\ _out_file' = "None"
                    /\ files'["gauges.data"] =
                          Banner(SetrunPy)
                          \o <<FieldLine(IntV(Len(gauges)), GaugeName.ngauges, <<>>)>>
                          \o [i \in 1..Len(gauges) |-> GaugeLine(gauges[i])] ]_vars

\* A write of three gauges, the first and the last with the number 3, raised
\* before any file existed.
C13_Witness ==
    /\ call.op = "write"
    /\ err = Exception
    /\ Len(dict[GaugeName.gauges].l) = 3
    /\ NumKey(dict[GaugeName.gauges].l[1].l[1]) = NumKey(dict[GaugeName.gauges].l[3].l[1])
    /\ NumKey(dict[GaugeName.gauges].l[1].l[1]) # NumKey(dict[GaugeName.gauges].l[2].l[1])
    /\ DOMAIN files = {}

---------------------------------------------------------------------------
(* Claims about ClawInputData.write and AmrclawInputData.write, checked    *)
(* under SpecClaw.                                                         *)

\* The file the record's write() writes, and the line data_write(name) makes
\* of a value.
ClawPath == IF class = "AmrclawInputData" THEN "amrclaw.data" ELSE "claw.data"
LineOf(value, name) == FieldLine(value, name, <<>>)

\* A line of the file is followed at once by the lines next, and the file
\* ends with a line.
Placed(lines, line, next) ==
    \E i \in 1..Len(lines) :
        /\ lines[i] = line
        /\ Len(lines) >= i + Len(next)
        /\ SubSeq(lines, i + 1, i + Len(next)) = next
Ends(lines, line) == lines # <<>> /\ lines[Len(lines)] = line

\* C14: write() writes the output_style line; for output_style 2 and an
\* empty output_times it then raises (AttributeError) and the file holds no
\* num_output_times line and no output_times line; for output_style 2 and n
\* output times the next two lines are num_output_times with the value n,
\* whatever the attribute held, and output_times with the n times in order;
\* for output_style 1 the next lines are num_output_times, tfinal and
\* output_t0, for output_style 3 output_step_interval, total_steps and
\* output_t0; for any other output_style it raises after the output_style
\* line.
C14_OutputStyleLines ==
    [][ call'.op = "write"
        => LET N == ClawName
               lines == files'[ClawPath]
               output_style == dict[N.output_style]
               output_times == dict[N.output_times]
               StyleLine == LineOf(output_style, N.output_style)
               line(name) == LineOf(dict[name], name)
           IN  CASE NumEq(output_style, 2) /\ output_times.l = <<>> ->
                      /\ err' = AttributeError
                      /\ Ends(lines, StyleLine)
                      /\ LinesOf(lines, N.num_output_times) = {}
                      /\ LinesOf(lines, N.output_times) = {}
                 [] NumEq(output_style, 2) /\ output_times.l # <<>> ->
                      Placed(lines, StyleLine,
                             <<LineOf(IntV(Len(output_times.l)), N.num_output_times),
                               LineOf(output_times, N.output_times)>>)
                 [] NumEq(output_style, 1) ->
                      Placed(lines, StyleLine,
                             <<line(N.num_output_times), line(N.tfinal),
                               line(N.output_t0)>>)
                 [] NumEq(output_style, 3) ->
                      Placed(lines, StyleLine,
                             <<line(N.output_step_interval), line(N.total_steps),
                               line(N.output_t0)>>)
                 [] OTHER -> err' = AttributeError /\ Ends(lines, StyleLine) ]_vars

\* A write() has written the count 3 and the three output times of
\* output_style 2.
C14_Witness ==
    /\ call.op = "write"
    /\ NumEq(dict[ClawName.output_style], 2)
    /\ dict[ClawName.num_output_times] = IntV(3)
    /\ Placed(files[ClawPath], LineOf(IntV(2), ClawName.output_style),
              <<LineOf(IntV(3), ClawName.num_output_times),
                LineOf(ListV(<<FloatV(1, 0), FloatV(2, 0), FloatV(3, 0)>>),
                       ClawName.output_times)>>)


\* The code of a boundary condition: user 0, extrap 1, periodic 2, wall 3,
\* and 0..3 themselves; -1 for anything else.
BoundaryCode(value) ==
    CASE value \in {IntV(0), StrV(ClawWord.user)} -> 0
      [] value \in {IntV(1), StrV(ClawWord.extrap)} -> 1
      [] value \in {IntV(2), StrV(ClawWord.periodic)} -> 2
      [] value \in {IntV(3), StrV(ClawWord.wall)} -> 3
      [] OTHER -> -1
BoundaryCodes(list) == ListV([i \in 1..Len(list.l) |-> IntV(BoundaryCode(list.l[i]))])
Recognized(list) == \A i \in 1..Len(list.l) : BoundaryCode(list.l[i]) # -1

\* C15: a write() that gets as far as the boundary conditions (it has
\* written the num_ghost line) replaces every entry of bc_lower by its code
\* and writes the bc_lower line with the codes right after the num_ghost
\* line, then does the same for bc_upper on the next line; if bc_lower has
\* an entry without a code it raises AttributeError (the spec's
\* UnsupportedConfigurationError) and the file holds no bc_lower line, and
\* if bc_upper has one it raises AttributeError after the bc_lower line and
\* the file holds no bc_upper line.  (bc_lower and bc_upper hold one entry
\* for each dimension.)
C15_BoundaryCodes ==
    [][ (/\ call'.op = "write"
         /\ LineOf(dict[ClawName.num_ghost], ClawName.num_ghost)
              \in Range(files'[ClawPath]))
        => LET N == ClawName
               lines == files'[ClawPath]
               GhostLine == LineOf(dict[N.num_ghost], N.num_ghost)
               LowerLine == LineOf(BoundaryCodes(dict[N.bc_lower]), N.bc_lower)
               UpperLine == LineOf(BoundaryCodes(dict[N.bc_upper]), N.bc_upper)
           IN  IF ~Recognized(dict[N.bc_lower])
               THEN /\ err' = AttributeError
                    /\ Ends(lines, GhostLine)
                    /\ LinesOf(lines, N.bc_lower) = {}
               ELSE /\ dict'[N.bc_lower] = BoundaryCodes(dict[N.bc_lower])
                    /\ IF ~Recognized(dict[N.bc_upper])
                       THEN /\ err' = AttributeError
                            /\ Placed(lines, GhostLine, <<LowerLine>>)
                            /\ Ends(lines, LowerLine)
                            /\ LinesOf(lines, N.bc_upper) = {}
                       ELSE /\ dict'[N.bc_upper] = BoundaryCodes(dict[N.bc_upper])
                            /\ Placed(lines, GhostLine, <<LowerLine, UpperLine>>) ]_vars

\* A write() has written "wall" as 3 and "user" as 0 in the bc_lower line of
\* a record of two dimensions.
C15_Witness ==
    /\ call.op = "write"
    /\ dict[ClawName.num_dim] = IntV(2)
    /\ dict[ClawName.bc_lower] = ListV(<<IntV(3), IntV(0)>>)
    /\ Placed(files[ClawPath], LineOf(IntV(2), ClawName.num_ghost),
              <<LineOf(ListV(<<IntV(3), IntV(0)>>), ClawName.bc_lower)>>)


\* C17: a write() that follows a write() that raised nothing, with nothing
\* set in between, raises nothing, writes the same lines again and leaves
\* the declared names and every value as the first write() left them.
C17_SecondWriteSame ==
    [][ (call.op = "write" /\ err = OK /\ call'.op = "write")
        => /\ err' = OK
           /\ files'[ClawPath] = files[ClawPath]
           /\ _attributes' = _attributes
           /\ dict' = dict ]_vars

\* A second write() has ended: the first one's handle was dropped for the
\* second's, and output_format, given as 'binary', holds 3.
C17_Witness ==
    /\ call.op = "write"
    /\ err = OK
    /\ leaked # {}
    /\ dict[ClawName.output_format] = IntV(3)
    /\ LineOf(IntV(3), ClawName.output_format) \in Range(files[ClawPath])


\* The lists of ratios write() tests, in the order it writes them, and
\* those with fewer than least entries.
RatioNames ==
    <<ClawName.refinement_ratios_x, ClawName.refinement_ratios_y>>
    \o (IF dict[ClawName.num_dim] = IntV(3) THEN <<ClawName.refinement_ratios_z>>
        ELSE <<>>)
    \o <<ClawName.refinement_ratios_t>>
Short(least) == {name \in Range(RatioNames) : Len(dict[name].l) < least}

\* What a write() of an AmrclawInputData that gets as far as the refinement
\* (it has written the amr_levels_max line) does if the lists need least
\* entries: with a list that is shorter it raises ValueError and the file
\* holds no line of a list that is shorter; otherwise it raises nothing and
\* the lines of the lists follow the amr_levels_max line.
RatiosTested(least) ==
    LET lines == files'[ClawPath]
        LevelsLine == LineOf(dict[ClawName.amr_levels_max], ClawName.amr_levels_max)
    IN  (/\ call'.op = "write"
         /\ class = "AmrclawInputData"
         /\ LevelsLine \in Range(lines))
        => IF Short(least) # {}
           THEN /\ err' = ValueError
                /\ \A name \in Short(least) : LinesOf(lines, name) = {}
           ELSE /\ err' = OK
                /\ Placed(lines, LevelsLine,
                          [i \in 1..Len(RatioNames) |->
                              LineOf(dict[RatioNames[i]], RatioNames[i])])

\* C18 as claimed: the lists need amr_levels_max - 1 entries, so that with
\* amr_levels_max = 1 a list of any length passes.
C18_RatiosAgainstLevels ==
    [][ RatiosTested(dict[ClawName.amr_levels_max].n - 1) ]_vars

\* C18 as amended: the lists need max(|amr_levels_max| - 1, 1) entries.
C18_RatiosAgainstNumRatios ==
    [][ RatiosTested(IF Abs(dict[ClawName.amr_levels_max].n) - 1 > 1
                     THEN Abs(dict[ClawName.amr_levels_max].n) - 1
                     ELSE 1) ]_vars

\* A write() of an AmrclawInputData with three levels and two ratios in
\* each list has ended without an exception.
C18_Witness ==
    /\ call.op = "write"
    /\ class = "AmrclawInputData"
    /\ err = OK
    /\ dict[ClawName.amr_levels_max] = IntV(3)
    /\ dict[ClawName.refinement_ratios_t] = Ratios
    /\ Placed(files[ClawPath], LineOf(IntV(3), ClawName.amr_levels_max),
              <<LineOf(Ratios, ClawName.refinement_ratios_x)>>)

---------------------------------------------------------------------------
(* Claims about ClawRunData, checked under SpecRun.                        *)

\* The ClawRunData and its data objects are as the constructor made them.
Fresh ==
    \E run \in {ClawRunData_init(dict[RunName.pkg].s, dict[RunName.num_dim].n)} :
        /\ Self = run.rec
        /\ objects = run.objects
        /\ writes = <<>>

\* The data objects in the order of data_list.
Registered(d) ==
    [i \in 1..Len(d[RunName.data_list].l) |-> d[RunName.data_list].l[i].n]

\* C16 as claimed: write() of a ClawRunData as constructed, of any package and
\* dimension the constructor accepts, raises nothing and has the write() of
\* every data object run to its end.
C16_FreshWriteRaisesNothing ==
    [][ (call'.op = "write" /\ Fresh)
        => /\ err' = OK
           /\ writes' = Registered(dict) ]_vars

\* What the write() of a data object raises, run on its own.
Raises(o) ==
    RunCalls(Running(Rec(o.attributes, o.dict), o._out_file, [p \in {} |-> <<>>], {}),
             ObjectWrite(o), SetrunPy).err

\* C19 as claimed: write() calls the write() of every data object once, in
\* the order of data_list, and leaves data_list as it was.
C19_EveryObjectOnce ==
    [][ call'.op = "write"
        => /\ writes' = Registered(dict)
           /\ dict'[RunName.data_list] = dict[RunName.data_list] ]_vars

\* C19 as amended: write() calls the write() of the data objects in the order
\* of data_list, each once, up to and with the first whose write() raises;
\* it ends with that exception, and with none after the last object if no
\* write() raises.  data_list is left as it was, and so are the objects that
\* come after the one whose write() raised.
C19_ObjectsUpToFirstRaise ==
    [][ call'.op = "write"
        => LET order == Registered(dict)
               raising == {i \in 1..Len(order) : Raises(objects[order[i]]) # OK}
               last == IF raising = {} THEN Len(order)
                       ELSE CHOOSE i \in raising : \A j \in raising : i <= j
           IN  /\ writes' = SubSeq(order, 1, last)
               /\ err' = IF raising = {} THEN OK ELSE Raises(objects[order[last]])
               /\ \A i \in (last + 1)..Len(order) : objects'[order[i]] = objects[order[i]]
               /\ Len(objects') = Len(objects)
               /\ dict'[RunName.data_list] = dict[RunName.data_list] ]_vars

\* write() has ended with the exception of a data object's write(), and an
\* object made by new_UserData after that object has not been written.
C19_Witness ==
    /\ call.op = "write"
    /\ err # OK
    /\ Len(writes) < Len(objects)
    /\ objects[Len(objects)].class = "UserData"
    /\ objects[Len(objects)]._out_file = "None"
    /\ Registered(dict) = [i \in 1..Len(objects) |-> i]
    /\ writes = SubSeq(Registered(dict), 1, Len(writes))

=============================================================================
